---- MODULE Spec2Model ----
(***************************************************************************)
(* Form Butler: the form-completion pipeline.                              *)
(*   content script  (src/content.js): focusin listener,                   *)
(*       requestFormCompletion, updateFormsData, fillFormFields,           *)
(*       runtime.onMessage listener                                        *)
(*   background      (src/unnamed/part_007, lines 1-187): onMessage        *)
(*       listener, processFormCompletion, replaceCardPlaceholders          *)
(*   card manager    (src/helpers/card-manager.js): saveCard, getCard      *)
(*   gateway         (src/unnamed/part_012): LLMInterrogator.promptLLM     *)
(*   model manager   (src/helpers/model-manager.js): saveModel, getModel   *)
(* Every await of the source is a step boundary: a storage read, a storage *)
(* write, a message delivery and the model call are separate steps, and    *)
(* the synchronous code between two awaits is one atomic step.             *)
(***************************************************************************)
EXTENDS Integers, Sequences, FiniteSets, Bags, TLC

VARIABLES
    isRequestPending,   \* content.js:5
    formsData,          \* chrome.storage.local key 'formsData'
    prefs,              \* chrome.storage.sync: extensionEnabled, autoFill, useStoredCompletion
    forms,              \* the document: form id -> fields and processing mark
    tasks,              \* content script: activations of the async handlers
    toBg,               \* runtime messages content script -> background
    bgTasks,            \* background: activations of processFormCompletion
    toContent,          \* tabs messages background -> content script
    llmInterrogator,    \* part_007:7, "undefined" until initialised
    cardManager,        \* part_007:10, the cards and the current card name
    llmSent,            \* the cardStructure objects handed to promptLLM
    events,             \* DOM events dispatched by fillFormFields
    location,           \* window.location.href of the page
    used,               \* history: focus events and fillForm messages so far,
                        \* and the form of the latest focus event
    fnArgs,             \* pure-function specifications: the call's input
    fnResult            \* pure-function specifications: the call's result

vars == <<isRequestPending, formsData, prefs, forms, tasks, toBg, bgTasks,
          toContent, llmInterrogator, cardManager, llmSent, events,
          location, used, fnArgs, fnResult>>

----------------------------------------------------------------------------
(* Bounds *)

\* focus events the page receives in one run
MaxFocus == 2
\* fillForm messages the popup sends in one run
MaxFill == 2

----------------------------------------------------------------------------
(* Strings.  JS strings are TLA+ strings; String.prototype.trim is given   *)
(* on the strings the model uses.                                          *)

WhitespaceOnly == {" ", "  "}

Trim(s) ==
    CASE s \in WhitespaceOnly -> ""
      [] s = " Paris " -> "Paris"
      [] OTHER -> s

\* the boolean value true, as opposed to the string "true"
BoolTrue == "true:boolean"
BoolFalse == "false:boolean"

\* JS truthiness of an instruction value
Truthy(v) == v \notin {"", BoolFalse}

\* an absent message field (message.formId of a message sent without it)
Undefined == "undefined"

----------------------------------------------------------------------------
(* The document.  A form is a sequence of controls; a control has its id   *)
(* and name selectors, tag, type, value attribute (the default value that  *)
(* outerHTML serialises), current value, checkedness and, for a select,    *)
(* the values of its options.                                              *)

Field(idsel, namesel, tag, type, attr, value, options) ==
    [idsel |-> idsel, namesel |-> namesel, tag |-> tag, type |-> type,
     attr |-> attr, value |-> value, checked |-> FALSE, options |-> options]

\* does a control match a selector of the model (an id or a name selector)
Matches(el, selector) == selector = el.idsel \/ selector = el.namesel

\* form.querySelector(selector): index of the first match, 0 for null
QuerySelectorMut(fields, selector) == 1
QuerySelector(fields, selector) ==
    IF \E i \in 1..Len(fields) : Matches(fields[i], selector)
    THEN CHOOSE i \in 1..Len(fields) :
            /\ Matches(fields[i], selector)
            /\ \A j \in 1..(i-1) : ~Matches(fields[j], selector)
    ELSE 0

\* form.querySelector(`${selector}[value='${v}']`)
QuerySelectorValue(fields, selector, v) ==
    IF \E i \in 1..Len(fields) : Matches(fields[i], selector) /\ fields[i].attr = v
    THEN CHOOSE i \in 1..Len(fields) :
            /\ Matches(fields[i], selector) /\ fields[i].attr = v
            /\ \A j \in 1..(i-1) : ~(Matches(fields[j], selector) /\ fields[j].attr = v)
    ELSE 0

\* the strings of the model that are valid floating-point numbers
Numeric == {"5"}

\* does the control keep v when v is assigned to its value: a select keeps
\* only the value of one of its options, an input of type number only a
\* number (the value sanitization of the control)
Accepts(el, v) ==
    CASE el.tag = "select" -> v \in el.options
      [] el.tag = "input" /\ el.type = "number" -> v \in Numeric
      [] OTHER -> TRUE

\* assigning el.value (content.js:209, 229): a value the control does not
\* accept leaves it empty
SetValueMut(el, v) == el
SetValue(el, v) == [el EXCEPT !.value = IF Accepts(el, v) THEN v ELSE ""]

----------------------------------------------------------------------------
(* collectFormData, content.js:47-69 *)

RemovedTypes == {"hidden", "submit", "button", "reset"}

\* first pass (content.js:52-54): hidden inputs, submit/button/reset inputs, buttons
IsUnnecessary(el) ==
    \/ el.tag = "button"
    \/ el.tag = "input" /\ el.type \in RemovedTypes

\* the value the clone of a control reports: cloneNode copies the value of
\* an input and of a textarea; the selectedness of a select's options is
\* copied or reset to the default, depending on the engine (keepSelected)
CloneValue(el, keepSelected) ==
    IF el.tag = "select" /\ ~keepSelected THEN el.attr ELSE el.value

\* second pass (content.js:57-61): controls whose value is not blank are removed
IsFilledMut(el, keepSelected) == FALSE
IsFilled(el, keepSelected) ==
    /\ el.tag \in {"input", "textarea", "select"}
    /\ Trim(CloneValue(el, keepSelected)) # ""

\* outerHTML of a retained control: tag, type, selectors and the value
\* attribute; the current value is a property and is not serialised
Serialize(el, i) ==
    [idx |-> i, idsel |-> el.idsel, tag |-> el.tag, type |-> el.type, attr |-> el.attr]

RECURSIVE CloneHtml(_, _, _)
CloneHtml(fields, i, keepSelected) ==
    IF i > Len(fields) THEN <<>>
    ELSE IF IsUnnecessary(fields[i]) \/ IsFilled(fields[i], keepSelected)
         THEN CloneHtml(fields, i + 1, keepSelected)
         ELSE <<Serialize(fields[i], i)>> \o CloneHtml(fields, i + 1, keepSelected)

\* hasFI: the object has the keys fillInstructions, focused and fulfilled
\* (a snapshot has only id, html and url)
collectFormData(formId, fields, url, keepSelected) ==
    [id |-> formId, html |-> CloneHtml(fields, 1, keepSelected), url |-> url,
     focused |-> FALSE, fulfilled |-> FALSE, hasFI |-> FALSE,
     fillInstructions |-> <<>>]

----------------------------------------------------------------------------
(* fillFormFields, content.js:192-238 *)

Instruction(selector, value, type) ==
    [selector |-> selector, value |-> value, type |-> type]

\* the string a DOM value setter stores for an instruction value
ToStr(v) == IF v = BoolTrue THEN "true" ELSE IF v = BoolFalse THEN "false" ELSE v

Ev(formId, idx, kind) == [form |-> formId, idx |-> idx, kind |-> kind]

\* content.js:204: only fill if found, not already filled, and a value is provided
ShouldFillMut(fields, field) ==
    /\ QuerySelector(fields, field.selector) # 0
    /\ Truthy(field.value)
ShouldFill(fields, field) ==
    /\ QuerySelector(fields, field.selector) # 0
    /\ Trim(fields[QuerySelector(fields, field.selector)].value) = ""
    /\ Truthy(field.value)

\* one iteration of the loop of content.js:202-237, on the controls of the
\* form and the events dispatched so far
FillOne(formId, st, field) ==
    LET fields == st.fields
        i == QuerySelector(fields, field.selector)
        r == QuerySelectorValue(fields, field.selector, ToStr(field.value))
    IN  IF ~ShouldFill(fields, field) THEN st
        ELSE CASE field.type = "select" ->
                    [fields |-> [fields EXCEPT ![i] = SetValue(@, ToStr(field.value))],
                     events |-> Append(st.events, Ev(formId, i, "change"))]
               [] field.type = "checkbox" ->
                    [fields |-> [fields EXCEPT ![i].checked =
                                    (field.value = BoolTrue \/ field.value = "true")],
                     events |-> Append(st.events, Ev(formId, i, "change"))]
               [] field.type = "radio" ->
                    IF r = 0 THEN st
                    ELSE [fields |-> [j \in 1..Len(fields) |->
                                        IF j = r THEN [fields[j] EXCEPT !.checked = TRUE]
                                        ELSE IF fields[j].type = "radio"
                                                /\ fields[j].namesel = fields[r].namesel
                                             THEN [fields[j] EXCEPT !.checked = FALSE]
                                             ELSE fields[j]],
                          events |-> Append(st.events, Ev(formId, r, "change"))]
               [] OTHER ->
                    [fields |-> [fields EXCEPT ![i] = SetValue(@, ToStr(field.value))],
                     events |-> st.events \o <<Ev(formId, i, "input"), Ev(formId, i, "change")>>]

RECURSIVE FillFrom(_, _, _, _)
FillFrom(formId, st, fillInstructions, k) ==
    IF k > Len(fillInstructions) THEN st
    ELSE FillFrom(formId, FillOne(formId, st, fillInstructions[k]), fillInstructions, k + 1)

\* the document after fillFormFields(formId, fillInstructions); a form that
\* is not in the document is left alone (content.js:195-198)
fillFormFields(doc, formId, fillInstructions) ==
    IF formId \notin DOMAIN doc THEN doc
    ELSE [doc EXCEPT ![formId].fields =
            FillFrom(formId, [fields |-> @, events |-> <<>>], fillInstructions, 1).fields]

----------------------------------------------------------------------------
(* mergeInstructions, content.js:129-146 *)

FindSelectorMut(list, selector) == 0
FindSelector(list, selector) ==
    IF \E i \in 1..Len(list) : list[i].selector = selector
    THEN CHOOSE i \in 1..Len(list) :
            /\ list[i].selector = selector
            /\ \A j \in 1..(i-1) : list[j].selector # selector
    ELSE 0

RECURSIVE MergeFrom(_, _, _)
MergeFrom(existing, new, k) ==
    IF k > Len(new) THEN existing
    ELSE LET i == FindSelector(existing, new[k].selector)
         IN  MergeFrom(IF i # 0 THEN [existing EXCEPT ![i] = new[k]]
                       ELSE Append(existing, new[k]), new, k + 1)

\* hasExisting is false when existingInstructions is undefined
mergeInstructions(hasExisting, existingInstructions, newInstructions) ==
    IF ~hasExisting THEN newInstructions
    ELSE MergeFrom(existingInstructions, newInstructions, 1)

----------------------------------------------------------------------------
(* The form registry, content.js:79-176 *)

\* getFormsData(formId) with the url defaulting to the page's: the records of
\* that id and url (content.js:90-98 returns the first of them, or undefined)
RecordsOf(data, formId, url) ==
    {i \in 1..Len(data) : data[i].id = formId /\ data[i].url = url}

First(S) == CHOOSE i \in S : \A j \in S : i <= j

\* getFocusedForm, content.js:108-111: index of the first focused record of the url
FocusedOf(data, url) ==
    {i \in 1..Len(data) : data[i].url = url /\ data[i].focused}

\* Object.assign(existingForm, newForm): the keys newForm has overwrite
AssignMut(existingForm, newForm) == newForm
Assign(existingForm, newForm) ==
    IF newForm.hasFI THEN newForm
    ELSE [existingForm EXCEPT !.id = newForm.id, !.html = newForm.html,
                              !.url = newForm.url]

\* getFormsData(null, url), content.js:79-101: formId is null and url is the
\* page's, so the records of that url are returned, in their order
getFormsData(data, url) == SelectSeq(data, LAMBDA r : r.url = url)

\* formsData.find(form => form.id === newForm.id && form.url === newForm.url),
\* content.js:160: the positions of the records with newForm's id and url
\* (find returns the first of them, or undefined when there is none)
FindExistingMut(data, newForm) == {}
FindExisting(data, newForm) ==
    {i \in 1..Len(data) : data[i].id = newForm.id /\ data[i].url = newForm.url}

\* the array updateFormsData writes back, content.js:154-173, from the stored
\* array it read.  content.js:154 calls getFormsData(url = null): the
\* assignment expression passes null as formId, url takes its default, and
\* the array read holds the records of the page's url only.
updateFormsDataMut(stored, newForm, url) ==
    LET data == getFormsData(stored, url)
        match == FindExisting(data, newForm)
    IN  IF match # {}
        THEN [data EXCEPT ![First(match)] =
                [Assign(@, newForm) EXCEPT !.focused = TRUE]]
        ELSE Append(data, [newForm EXCEPT !.focused = TRUE, !.fulfilled = FALSE])

updateFormsData(stored, newForm, url) ==
    LET data == getFormsData(stored, url)
        cleared == [i \in 1..Len(data) |-> [data[i] EXCEPT !.focused = FALSE]]
        match == FindExisting(data, newForm)
    IN  IF match # {}
        THEN [cleared EXCEPT ![First(match)] =
                [Assign(@, newForm) EXCEPT !.focused = TRUE]]
        ELSE Append(cleared, [newForm EXCEPT !.focused = TRUE, !.fulfilled = FALSE])

----------------------------------------------------------------------------
(* Background: the card manager and replaceCardPlaceholders *)

\* the keys CardManager.saveCard stores, card-manager.js:260-267
CardKeys == {"name", "holderName", "number", "expiryMonth", "expiryYear", "ccv"}

\* the keys saveCard fills with secrets
SecretKeys == {"number", "ccv", "expiryMonth", "expiryYear"}

\* the keys processFormCompletion blanks, part_007:79-81
BlankedKeys == {"cardNumber", "cvv", "expirationDate"}

TheCard ==
    [k \in CardKeys |->
        CASE k = "name" -> "visa"
          [] k = "holderName" -> "Al"
          [] k = "number" -> "4111"
          [] k = "expiryMonth" -> "12"
          [] k = "expiryYear" -> "2030"
          [] k = "ccv" -> "999"]

\* the values that are secrets of some stored card
SecretValues == {TheCard[k] : k \in SecretKeys}

NoCard == [cards |-> <<>>, currentCard |-> "null"]
OneCard == [cards |-> <<TheCard>>, currentCard |-> "visa"]

\* CardManager.getCard(), card-manager.js:365-371: the cards named currentCard
\* (the first of them is returned, null when there is none)
getCard(cm) == {i \in 1..Len(cm.cards) : cm.cards[i]["name"] = cm.currentCard}

\* part_007:77-81: { ...currentCard } with cardNumber, cvv, expirationDate blanked
StrippedCard(cm) ==
    IF getCard(cm) = {} THEN [k \in BlankedKeys |-> ""]
    ELSE [k \in CardKeys \cup BlankedKeys |->
            IF k \in BlankedKeys THEN "" ELSE cm.cards[First(getCard(cm))][k]]

\* part_007:176-187; the caller passes a defined cardFillInstructions
replaceCardPlaceholders(cm, cardFillInstructions) ==
    IF getCard(cm) = {} THEN <<>>
    ELSE [i \in 1..Len(cardFillInstructions) |->
            [cardFillInstructions[i] EXCEPT !.value =
                IF @ \in DOMAIN cm.cards[First(getCard(cm))]
                THEN cm.cards[First(getCard(cm))][@] ELSE ""]]

----------------------------------------------------------------------------
(* Messages *)

NoFormData == collectFormData("", <<>>, "", TRUE)

RequestMsg(formData) ==
    [action |-> "requestFormCompletion", formId |-> formData.id,
     fillInstructions |-> <<>>, formData |-> formData, req |-> formData.id]

ReadyMsg(formId, fillInstructions) ==
    [action |-> "formCompletionReady", formId |-> formId,
     fillInstructions |-> fillInstructions, formData |-> NoFormData, req |-> formId]

\* part_007:65 and part_007:122: { action, error }, no formId; req is the id
\* of the form of the failed request, kept to state properties, not a field
\* of the message
ErrorMsgMut(formData) == ReadyMsg(formData.id, <<>>)
ErrorMsg(formData) ==
    [action |-> "formCompletionError", formId |-> Undefined,
     fillInstructions |-> <<>>, formData |-> NoFormData, req |-> formData.id]

----------------------------------------------------------------------------
(* The page, the preferences and the model's answers *)

FormIds == {"f1", "f2"}

\* f1 has a name field and a card-number field, f2 a name field
InitialForms ==
    [f \in FormIds |->
        [processing |-> FALSE,
         fields |-> IF f = "f1"
                    THEN <<Field("#a", "[name=a]", "input", "text", "", "", {}),
                           Field("#n", "[name=n]", "input", "text", "", "", {})>>
                    ELSE <<Field("#a", "[name=a]", "input", "text", "", "", {})>>]]

\* document.getElementById(id): is there such a form
GetElementById(doc, id) == id \in DOMAIN doc

PrefKeys == {"extensionEnabled", "autoFill", "useStoredCompletion"}
PrefValues == {"absent", "true", "false"}

\* const { extensionEnabled = true } = await chrome.storage.sync.get(...), content.js:246
extensionEnabledMut(p) == TRUE
extensionEnabled(p) == p["extensionEnabled"] # "false"
\* result.autoFill || false, content.js:184
getAutoFillSettingMut(p) == p["autoFill"] # "absent"
getAutoFillSetting(p) == p["autoFill"] = "true"
\* const { useStoredCompletion } = ..., content.js:266: undefined when absent
useStoredCompletion(p) == p["useStoredCompletion"] = "true"

\* what the model may answer: the parsed content, or content that is not
\* JSON, or a failed call.  hasCard is false when cardFillInstructions is omitted
LLMAnswers ==
    { [ok |-> TRUE, personal |-> p, hasCard |-> h, card |-> c] :
        p \in {<<Instruction("#a", "Al", "text")>>},
        h \in BOOLEAN,
        c \in {<<Instruction("#n", "number", "text")>>} }
    \cup { [ok |-> FALSE, personal |-> <<>>, hasCard |-> FALSE, card |-> <<>>] }

----------------------------------------------------------------------------
(* Activations of the content script's async functions: a bag of           *)
(* activations, each at an await (pc) with its local variables             *)

Task(pc, newForm, data, msg) ==
    [pc |-> pc, newForm |-> newForm, data |-> data, msg |-> msg]

NoMsg == [action |-> "", formId |-> "", fillInstructions |-> <<>>,
          formData |-> NoFormData, req |-> ""]

Running == BagToSet(tasks)
Spawn(t) == tasks (+) SetToBag({t})
Finish(t) == tasks (-) SetToBag({t})
Become(t, u) == (tasks (-) SetToBag({t})) (+) SetToBag({u})

Init ==
    /\ isRequestPending = FALSE
    /\ formsData = <<>>
    /\ prefs \in [PrefKeys -> PrefValues]
    /\ forms = InitialForms
    /\ tasks = EmptyBag
    /\ toBg = <<>>
    /\ bgTasks = <<>>
    /\ toContent = <<>>
    /\ llmInterrogator \in {"undefined", "configured"}
    /\ cardManager \in {NoCard, OneCard}
    /\ llmSent = {}
    /\ events = <<>>
    /\ location = "u1"
    /\ used = [focus |-> 0, fill |-> 0, last |-> "", stored |-> ""]
    /\ fnArgs = <<>>
    /\ fnResult = <<>>

contentVars == <<isRequestPending, formsData, forms, tasks, toBg>>
bgVars == <<bgTasks, llmInterrogator, cardManager, llmSent>>
fnVars == <<events, fnArgs, fnResult, location, used>>

(* focusin listener, content.js:295-333 *)

\* content.js:297: the event is ignored while a request is pending
FocusIgnored(pending) == pending

\* the synchronous part: snapshot, call of updateFormsData up to its read
FocusIn(f, keepSelected) ==
    /\ used.focus < MaxFocus
    /\ used' = [used EXCEPT !.focus = @ + 1, !.last = f]
    /\ tasks' = IF FocusIgnored(isRequestPending) THEN tasks
                ELSE Spawn(Task("focus_read",
                           collectFormData(f, forms[f].fields, location, keepSelected),
                           <<>>, NoMsg))
    /\ UNCHANGED <<isRequestPending, formsData, forms, toBg, prefs, bgVars,
                   toContent, events, location, fnArgs, fnResult>>

\* updateFormsData: getFormsData resolved, content.js:154-173, setFormsData called
UpdateRead(t, from, to) ==
    /\ t.pc = from
    /\ tasks' = Become(t, [t EXCEPT !.pc = to, !.newForm = NoFormData,
                                    !.data = updateFormsData(formsData, t.newForm, location)])
    /\ UNCHANGED <<isRequestPending, formsData, forms, toBg, prefs, bgVars,
                   toContent, fnVars>>

\* updateFormsData: the storage applies the write of setFormsData, content.js:175
UpdateWrite(t, from, to) ==
    /\ t.pc = from
    /\ formsData' = t.data
    /\ tasks' = Become(t, [t EXCEPT !.pc = to, !.data = <<>>])
    /\ UNCHANGED <<isRequestPending, forms, toBg, prefs, bgVars, toContent, fnVars>>

FocusRead(t) == UpdateRead(t, "focus_read", "focus_write")
FocusWrite(t) == UpdateWrite(t, "focus_write", "focus_autofill")

\* content.js:326-331: getAutoFillSetting resolved; requestFormCompletion is
\* called and runs up to its first await
FocusAutoFill(t) ==
    /\ t.pc = "focus_autofill"
    /\ tasks' = IF getAutoFillSetting(prefs)
                THEN Become(t, Task("rfc_enabled", NoFormData, <<>>, NoMsg))
                ELSE Finish(t)
    /\ UNCHANGED <<isRequestPending, formsData, forms, toBg, prefs, bgVars,
                   toContent, fnVars>>

(* requestFormCompletion, content.js:243-292 *)

\* the popup's fillForm message is delivered, content.js:368-372
FillFormMessage ==
    /\ used.fill < MaxFill
    /\ used' = [used EXCEPT !.fill = @ + 1]
    /\ tasks' = Spawn(Task("rfc_enabled", NoFormData, <<>>, NoMsg))
    /\ UNCHANGED <<isRequestPending, formsData, forms, toBg, prefs, bgVars,
                   toContent, events, location, fnArgs, fnResult>>

\* content.js:252: a pending request makes requestFormCompletion return
PendingBlocksMut(pending) == FALSE
PendingBlocks(pending) == pending

\* content.js:246-259: extensionEnabled resolved, the guard, getFocusedForm called
RfcEnabled(t) ==
    /\ t.pc = "rfc_enabled"
    /\ IF ~extensionEnabled(prefs) \/ PendingBlocks(isRequestPending)
       THEN /\ tasks' = Finish(t)
            /\ UNCHANGED isRequestPending
       ELSE /\ isRequestPending' = TRUE
            /\ tasks' = Become(t, [t EXCEPT !.pc = "rfc_focused"])
    /\ UNCHANGED <<formsData, forms, toBg, prefs, bgVars, toContent, fnVars>>

\* content.js:259-266: getFocusedForm resolved; with no focused record the
\* function returns, and isRequestPending stays as set
RfcFocused(t) ==
    /\ t.pc = "rfc_focused"
    /\ tasks' = IF FocusedOf(formsData, location) = {} THEN Finish(t)
                ELSE Become(t, [t EXCEPT !.pc = "rfc_stored",
                        !.newForm = formsData[First(FocusedOf(formsData, location))]])
    /\ UNCHANGED <<isRequestPending, formsData, forms, toBg, prefs, bgVars,
                   toContent, fnVars>>

\* content.js:273: the stored plan is used for a fulfilled record when the
\* user opted for it
ShouldUseStoredMut(focusedForm, p) == FALSE
ShouldUseStored(focusedForm, p) == focusedForm.fulfilled /\ useStoredCompletion(p)

\* content.js:266-291: useStoredCompletion resolved; the rest is synchronous
\* (fillFormFields has no await inside).  With no element of that id,
\* content.js:270 throws and the function ends there.  used.stored keeps the
\* id of the form the stored plan was last applied to.
RfcStored(t) ==
    LET focusedForm == t.newForm
        shouldUseStored == ShouldUseStored(focusedForm, prefs)
    IN  /\ t.pc = "rfc_stored"
        /\ tasks' = Finish(t)
        /\ IF ~GetElementById(forms, focusedForm.id)
           THEN UNCHANGED <<isRequestPending, forms, toBg, used>>
           ELSE IF ~shouldUseStored
           THEN /\ forms' = [forms EXCEPT ![focusedForm.id].processing = TRUE]
                /\ toBg' = Append(toBg, RequestMsg(focusedForm))
                /\ UNCHANGED <<isRequestPending, used>>
           ELSE /\ forms' = [(IF focusedForm.hasFI
                              THEN fillFormFields(forms, focusedForm.id,
                                                  focusedForm.fillInstructions)
                              ELSE forms)
                             EXCEPT ![focusedForm.id].processing = FALSE]
                /\ isRequestPending' = FALSE
                /\ used' = [used EXCEPT !.stored = focusedForm.id]
                /\ UNCHANGED toBg
        /\ UNCHANGED <<formsData, prefs, bgVars, toContent, events, location,
                       fnArgs, fnResult>>

(* runtime.onMessage listener of the content script, content.js:338-373 *)

\* content.js:339-341: formCompletionReady delivered, getFormsData called
DeliverReady ==
    /\ toContent # <<>>
    /\ Head(toContent).action = "formCompletionReady"
    /\ tasks' = Spawn(Task("ready_get", NoFormData, <<>>, Head(toContent)))
    /\ toContent' = Tail(toContent)
    /\ UNCHANGED <<isRequestPending, formsData, forms, toBg, prefs, bgVars, fnVars>>

\* content.js:341-347: getFormsData(message.formId) resolved; with a record,
\* merge, mark fulfilled and call updateFormsData; without, only a warning
ReadyGet(t) ==
    LET m == t.msg
        found == RecordsOf(formsData, m.formId, location)
        form == formsData[First(found)]
    IN  /\ t.pc = "ready_get"
        /\ tasks' =
                IF found = {} THEN Finish(t)
                ELSE Become(t, [t EXCEPT !.pc = "ready_read",
                        !.newForm = [form EXCEPT
                            !.fillInstructions =
                                mergeInstructions(form.hasFI, form.fillInstructions,
                                                  m.fillInstructions),
                            !.hasFI = TRUE,
                            !.fulfilled = TRUE]])
        /\ UNCHANGED <<isRequestPending, formsData, forms, toBg, prefs, bgVars,
                       toContent, fnVars>>

ReadyRead(t) == UpdateRead(t, "ready_read", "ready_write")
ReadyWrite(t) == UpdateWrite(t, "ready_write", "ready_done")

\* content.js:349-355: fill the form of message.formId, remove the processing
\* mark, release the guard; content.js:354 throws when the element is gone
ReadyDone(t) ==
    LET m == t.msg
    IN  /\ t.pc = "ready_done"
        /\ tasks' = Finish(t)
        /\ IF GetElementById(forms, m.formId)
           THEN /\ forms' = [fillFormFields(forms, m.formId, m.fillInstructions)
                                EXCEPT ![m.formId].processing = FALSE]
                /\ isRequestPending' = FALSE
           ELSE UNCHANGED <<forms, isRequestPending>>
        /\ UNCHANGED <<formsData, toBg, prefs, bgVars, toContent, fnVars>>

\* content.js:360-366: formCompletionError delivered; synchronous.
\* getElementById(message.formId) is null for an id no form has, and
\* content.js:365 then throws before the guard is released
DeliverError ==
    /\ toContent # <<>>
    /\ Head(toContent).action = "formCompletionError"
    /\ toContent' = Tail(toContent)
    /\ IF GetElementById(forms, Head(toContent).formId)
       THEN /\ forms' = [forms EXCEPT ![Head(toContent).formId].processing = FALSE]
            /\ isRequestPending' = FALSE
       ELSE UNCHANGED <<forms, isRequestPending>>
    /\ UNCHANGED <<formsData, tasks, toBg, prefs, bgVars, fnVars>>

----------------------------------------------------------------------------
(* Background, part_007:35-124 *)

\* chrome.tabs.sendMessage(tabId, message), part_007:65, 114, 122: the
\* message joins those on their way to the content script
SendToTabMut(queue, message) == queue
SendToTab(queue, message) == Append(queue, message)

\* part_007:35-45 and 62-71: the request is delivered; without a gateway the
\* error is sent at once, else loadPrompt is awaited
BgReceive ==
    /\ toBg # <<>>
    /\ toBg' = Tail(toBg)
    /\ IF llmInterrogator = "undefined"
       THEN /\ toContent' = SendToTab(toContent, ErrorMsg(Head(toBg).formData))
            /\ UNCHANGED bgTasks
       ELSE /\ bgTasks' = Append(bgTasks, [pc |-> "prompt", formData |-> Head(toBg).formData])
            /\ UNCHANGED toContent
    /\ UNCHANGED <<isRequestPending, formsData, forms, tasks, prefs,
                   llmInterrogator, cardManager, llmSent, fnVars>>

\* part_007:71-96: the prompt is loaded, the message content is built from
\* the snapshot and the stripped card, promptLLM is called
BgPrompt(b) ==
    /\ bgTasks[b].pc = "prompt"
    /\ bgTasks' = [bgTasks EXCEPT ![b].pc = "llm"]
    /\ llmSent' = llmSent \cup {StrippedCard(cardManager)}
    /\ UNCHANGED <<contentVars, prefs, toContent, llmInterrogator, cardManager, fnVars>>

RemoveAt(seq, i) == [j \in 1..(Len(seq) - 1) |-> IF j < i THEN seq[j] ELSE seq[j + 1]]

\* part_007:98-123: promptLLM settled with answer a.  A failed call, content
\* that is not JSON, and cardFillInstructions omitted while a card is
\* selected (part_007:183 throws) end in the catch block.
AnswerFails(a, cm) == ~a.ok \/ (~a.hasCard /\ getCard(cm) # {})

BgAnswer(b, a) ==
    LET formData == bgTasks[b].formData
        failed == AnswerFails(a, cardManager)
        filledCardInstructions ==
            replaceCardPlaceholders(cardManager, IF a.hasCard THEN a.card ELSE <<>>)
    IN  /\ bgTasks[b].pc = "llm"
        /\ bgTasks' = RemoveAt(bgTasks, b)
        /\ toContent' = SendToTab(toContent,
                IF failed THEN ErrorMsg(formData)
                ELSE ReadyMsg(formData.id, a.personal \o filledCardInstructions))
        /\ UNCHANGED <<contentVars, prefs, llmInterrogator, cardManager, llmSent, fnVars>>

----------------------------------------------------------------------------

Next ==
    \/ \E f \in FormIds, keep \in BOOLEAN : FocusIn(f, keep)
    \/ \E t \in Running : FocusRead(t)
    \/ \E t \in Running : FocusWrite(t)
    \/ \E t \in Running : FocusAutoFill(t)
    \/ FillFormMessage
    \/ \E t \in Running : RfcEnabled(t)
    \/ \E t \in Running : RfcFocused(t)
    \/ \E t \in Running : RfcStored(t)
    \/ DeliverReady
    \/ \E t \in Running : ReadyGet(t)
    \/ \E t \in Running : ReadyRead(t)
    \/ \E t \in Running : ReadyWrite(t)
    \/ \E t \in Running : ReadyDone(t)
    \/ DeliverError
    \/ BgReceive
    \/ \E b \in 1..Len(bgTasks) : BgPrompt(b)
    \/ \E b \in 1..Len(bgTasks), a \in LLMAnswers : BgAnswer(b, a)

Spec == Init /\ [][Next]_vars

TypeOK ==
    /\ isRequestPending \in BOOLEAN
    /\ used.focus \in 0..MaxFocus
    /\ used.fill \in 0..MaxFill

----------------------------------------------------------------------------
(* collectFormData as a function of the form: the specification draws a    *)
(* form from the controls below, takes its snapshot (fnResult) and upserts *)
(* it into formsData.                                                      *)

\* controls of a drawn form
MaxFields == 2

TextValues == {"", " ", "Paris", " Paris ", "Rome"}
TextAttrs == {"", " ", "Paris"}

\* the controls position i of a form may hold
ControlsAt(i) ==
    LET id == IF i = 1 THEN "#c1" ELSE IF i = 2 THEN "#c2" ELSE "#c3"
    IN  { Field(id, "[name=t]", tag, "text", a, v, {}) :
            tag \in {"input", "textarea"}, a \in TextAttrs, v \in TextValues }
        \cup { Field(id, "[name=s]", "select", "select-one", a, v, {"", "FR"}) :
            a \in {"", "FR"}, v \in {"", "FR"} }
        \cup { Field(id, "[name=h]", "input", "hidden", a, a, {}) : a \in {"", "Paris"} }
        \cup { Field(id, "[name=k]", "input", "checkbox", a, a, {}) : a \in {"on", ""} }
        \cup { Field(id, "[name=b]", "button", "submit", "", "", {}) }

RECURSIVE FieldLists(_)
FieldLists(n) ==
    IF n = 0 THEN {<<>>}
    ELSE FieldLists(n - 1) \cup
         { Append(l, c) : l \in {m \in FieldLists(n - 1) : Len(m) = n - 1},
                          c \in ControlsAt(n) }

IdleRest ==
    /\ isRequestPending = FALSE
    /\ prefs = [k \in PrefKeys |-> "absent"]
    /\ tasks = EmptyBag
    /\ toBg = <<>>
    /\ bgTasks = <<>>
    /\ toContent = <<>>
    /\ llmInterrogator = "undefined"
    /\ cardManager = NoCard
    /\ llmSent = {}
    /\ events = <<>>
    /\ location = "u1"
    /\ used = [focus |-> 0, fill |-> 0, last |-> "", stored |-> ""]

InitSnapshot ==
    /\ IdleRest
    /\ forms \in [{"f1"} -> [processing : {FALSE}, fields : FieldLists(MaxFields) \ {<<>>}]]
    /\ formsData = <<>>
    /\ fnArgs = <<>>
    /\ fnResult = <<>>

SnapshotCollect(keepSelected) ==
    /\ fnResult = <<>>
    /\ fnResult' = <<collectFormData("f1", forms["f1"].fields, location, keepSelected)>>
    /\ UNCHANGED <<isRequestPending, formsData, prefs, forms, tasks, toBg, bgTasks,
                   toContent, llmInterrogator, cardManager, llmSent, events,
                   location, used, fnArgs>>

SnapshotUpsert ==
    /\ fnResult # <<>>
    /\ formsData = <<>>
    /\ formsData' = updateFormsData(formsData, fnResult[1], location)
    /\ UNCHANGED <<isRequestPending, prefs, forms, tasks, toBg, bgTasks,
                   toContent, llmInterrogator, cardManager, llmSent, events,
                   location, used, fnArgs, fnResult>>

NextSnapshot ==
    \/ \E keep \in BOOLEAN : SnapshotCollect(keep)
    \/ SnapshotUpsert

SpecSnapshot == InitSnapshot /\ [][NextSnapshot]_vars

\* a control holds a value to protect: a value that is not blank, or a
\* non-empty value that differs from the control's default (the user entered it)
HoldsEnteredValue(el) ==
    \/ Trim(el.value) # ""
    \/ el.value # "" /\ el.value # el.attr

\* html shows control i of the form with the value el holds
ShowsValue(html, i, el) ==
    \E j \in 1..Len(html) : html[j].idx = i /\ html[j].attr = el.value

\* C6: for every form, the snapshot collectFormData returns, and the record
\* stored from it, show no control with the value the control holds: a
\* control holding an entered value is absent from the html or serialised
\* without that value.
C6_SnapshotHasNoEnteredValue ==
    \A i \in 1..Len(forms["f1"].fields) :
        HoldsEnteredValue(forms["f1"].fields[i]) =>
            /\ \A k \in 1..Len(fnResult) :
                    ~ShowsValue(fnResult[k].html, i, forms["f1"].fields[i])
            /\ \A k \in 1..Len(formsData) :
                    ~ShowsValue(formsData[k].html, i, forms["f1"].fields[i])

\* a snapshot was stored of a form with a filled control (dropped) and an
\* empty one (kept)
C6_Witness ==
    /\ Len(formsData) = 1
    /\ Len(forms["f1"].fields) = 2
    /\ Trim(forms["f1"].fields[1].value) # ""
    /\ forms["f1"].fields[1].tag = "input"
    /\ forms["f1"].fields[1].type = "text"
    /\ Len(formsData[1].html) = 1
    /\ formsData[1].html[1].idx = 2

----------------------------------------------------------------------------
(* fillFormFields as a function of the form and the instructions: the      *)
(* specification draws a form, then runs the loop of content.js:202-237    *)
(* on instructions drawn one at a time.                                    *)

\* instructions of one call
MaxInstr == 2

FillControlsAt(i) ==
    LET id == IF i = 1 THEN "#c1" ELSE "#c2"
    IN  { Field(id, "[name=t]", "input", "text", "", v, {}) : v \in {"", " ", "Paris"} }
        \cup { Field(id, "[name=s]", "select", "select-one", "", v, {"", "m"}) :
                v \in {"", "m"} }
        \cup { Field(id, "[name=g]", "input", "radio", a, a, {}) : a \in {"", "m"} }
        \cup { Field(id, "[name=k]", "input", "checkbox", a, a, {}) : a \in {"", "on"} }

InstructionsDrawn ==
    { Instruction(sel, v, ty) :
        sel \in {"#c1", "#c2", "[name=g]", "#zz"},
        v \in {"m", "", BoolTrue},
        ty \in {"text", "select", "checkbox", "radio"} }

InitFill ==
    /\ IdleRest
    /\ forms \in [{"f1"} -> [processing : {FALSE},
                             fields : {<<a, b>> : a \in FillControlsAt(1),
                                                  b \in FillControlsAt(2)}]]
    /\ formsData = <<>>
    /\ fnArgs = [n |-> 0, field |-> Instruction("", "", "")]
    /\ fnResult = <<forms["f1"].fields>>

\* one iteration of the loop; fnArgs holds the number of instructions
\* processed and the latest of them, fnResult the controls the call began with
FillApply(field) ==
    LET st == FillOne("f1", [fields |-> forms["f1"].fields, events |-> events], field)
    IN  /\ fnArgs' = [n |-> fnArgs.n + 1, field |-> field]
        /\ forms' = [forms EXCEPT !["f1"].fields = st.fields]
        /\ events' = st.events
        /\ UNCHANGED <<isRequestPending, formsData, prefs, tasks, toBg, bgTasks,
                       toContent, llmInterrogator, cardManager, llmSent,
                       location, used, fnResult>>

FillStep(field) == fnArgs.n < MaxInstr /\ FillApply(field)

NextFill == \E field \in InstructionsDrawn : FillStep(field)

SpecFill == InitFill /\ [][NextFill]_vars

\* the control an instruction targets in the form as it is now, 0 for none
Target(field) == QuerySelector(forms["f1"].fields, field.selector)

\* C7: fillFormFields never changes a field that already holds a value: a
\* control whose value was not blank when the call began keeps that value
\* throughout, and an instruction whose target's value is not blank changes
\* no control and dispatches no event.
C7_NoOverwrite ==
    /\ [](\A i \in 1..Len(forms["f1"].fields) :
            Trim(fnResult[1][i].value) # "" =>
                forms["f1"].fields[i].value = fnResult[1][i].value)
    /\ [][\A field \in InstructionsDrawn :
            (/\ fnArgs' = [n |-> fnArgs.n + 1, field |-> field]
             /\ Target(field) # 0
             /\ Trim(forms["f1"].fields[Target(field)].value) # "")
            => (forms' = forms /\ events' = events)]_vars

\* a call met a filled control with a value to write and also filled an
\* empty one
C7_Witness ==
    /\ fnArgs.n = 2
    /\ fnArgs.field = Instruction("#c1", "m", "text")
    /\ fnResult[1][1].value = "Paris"
    /\ forms["f1"].fields[1].value = "Paris"
    /\ fnResult[1][2].value = ""
    /\ forms["f1"].fields[2].value = "m"
    /\ Len(events) = 2

\* no control of the form matches the selector
Unresolved(field) ==
    \A i \in 1..Len(forms["f1"].fields) : ~Matches(forms["f1"].fields[i], field.selector)

\* C25: an instruction whose selector resolves to no element of the form is
\* skipped: its iteration changes no control and dispatches no event, so the
\* instructions after it meet the form the instructions before it left.
C25_UnresolvedSkipped ==
    [][\A field \in InstructionsDrawn :
        (fnArgs' = [n |-> fnArgs.n + 1, field |-> field] /\ Unresolved(field))
        => (forms' = forms /\ events' = events)]_vars

\* an instruction filled the first control and the next one, unresolved,
\* was skipped
C25_Witness ==
    /\ fnArgs.n = 2
    /\ fnArgs.field = Instruction("#zz", "m", "text")
    /\ fnResult[1][1].value = ""
    /\ forms["f1"].fields[1].value = "m"
    /\ forms["f1"].fields[2] = fnResult[1][2]
    /\ events = <<Ev("f1", 1, "input"), Ev("f1", 1, "change")>>

----------------------------------------------------------------------------
(* One instruction applied to a form of typed controls: the controls of    *)
(* SpecFill and an input of type number, the instruction drawn with its    *)
(* declared type and a string or boolean value.                            *)

\* instructions applied in one run
MaxTyped == 1

TypedControlsAt(i) ==
    FillControlsAt(i)
        \cup { Field(IF i = 1 THEN "#c1" ELSE "#c2", "[name=n]", "input", "number",
                     "", "", {}) }

InstructionsTyped ==
    { Instruction(sel, v, ty) :
        sel \in {"#c1", "#c2", "[name=g]", "#zz"},
        v \in {"m", "5", "", BoolTrue, "true"},
        ty \in {"text", "number", "select", "checkbox", "radio"} }

InitTyped ==
    /\ IdleRest
    /\ forms \in [{"f1"} -> [processing : {FALSE},
                             fields : {<<a, b>> : a \in TypedControlsAt(1),
                                                  b \in TypedControlsAt(2)}]]
    /\ formsData = <<>>
    /\ fnArgs = [n |-> 0, field |-> Instruction("", "", "")]
    /\ fnResult = <<forms["f1"].fields>>

TypedStep(field) == fnArgs.n < MaxTyped /\ FillApply(field)

NextTyped == \E field \in InstructionsTyped : TypedStep(field)

SpecTyped == InitTyped /\ [][NextTyped]_vars

\* the instruction types that take the default branch of content.js:228-231
TextLike == {"text", "email", "tel", "textarea", "number", "date"}

\* the step applies field, whose value is a non-empty string and whose
\* selector resolves to a control with a blank value
FillsEmpty(field) ==
    /\ fnArgs' = [n |-> fnArgs.n + 1, field |-> field]
    /\ field.value \notin {"", BoolTrue, BoolFalse}
    /\ Target(field) # 0
    /\ Trim(forms["f1"].fields[Target(field)].value) = ""

\* the events the step dispatched, in order
Dispatched == SubSeq(events', Len(events) + 1, Len(events'))

EventsOf(field) ==
    IF field.type = "select" THEN <<Ev("f1", Target(field), "change")>>
    ELSE <<Ev("f1", Target(field), "input"), Ev("f1", Target(field), "change")>>

C24_CheckboxChecked ==
    [][\A field \in InstructionsTyped :
        (/\ fnArgs' = [n |-> fnArgs.n + 1, field |-> field]
         /\ field.type = "checkbox"
         /\ field.value \in {BoolTrue, "true"}
         /\ Target(field) # 0
         /\ forms["f1"].fields[Target(field)].type = "checkbox"
         /\ ~forms["f1"].fields[Target(field)].checked)
        => /\ forms'["f1"].fields[Target(field)].checked
           /\ Dispatched = <<Ev("f1", Target(field), "change")>>]_vars

----------------------------------------------------------------------------
(* The registry as the content scripts of two tabs use it.  formsData is   *)
(* one key of chrome.storage.local, which every content script of the      *)
(* extension reads and writes (content.js:80, content.js:119).  In this    *)
(* specification isRequestPending and location are per tab, an activation  *)
(* carries its tab, and the background is reduced to its answer: a request *)
(* is answered by a formCompletionReady for the form it names.  The page   *)
(* of each tab shows InitialForms and its fields stay empty.               *)

Tabs == {"T1", "T2"}
Urls == {"u1", "u2"}

RegTask(tab, pc, newForm, msg) ==
    [tab |-> tab, pc |-> pc, newForm |-> newForm, data |-> <<>>, msg |-> msg]

InitRegistry ==
    /\ isRequestPending = [tab \in Tabs |-> FALSE]
    /\ location \in {l \in [Tabs -> Urls] : l["T1"] = "u1"}
    /\ formsData = <<>>
    /\ prefs = [k \in PrefKeys |-> "absent"]
    /\ forms = InitialForms
    /\ tasks = EmptyBag
    /\ toBg = <<>>
    /\ bgTasks = <<>>
    /\ toContent = <<>>
    /\ llmInterrogator = "configured"
    /\ cardManager = NoCard
    /\ llmSent = {}
    /\ events = <<>>
    /\ used = [focus |-> 0, fill |-> 0, last |-> "", stored |-> ""]
    /\ fnArgs = <<>>
    /\ fnResult = <<>>

regRest == <<prefs, forms, toBg, bgTasks, llmInterrogator, cardManager, llmSent,
             events, location, fnArgs>>

\* focusin in tab, content.js:295-323, up to the read of updateFormsData
RegFocusIn(tab, f) ==
    /\ used.focus < MaxFocus
    /\ ~FocusIgnored(isRequestPending[tab])
    /\ used' = [used EXCEPT !.focus = @ + 1, !.last = f]
    /\ tasks' = Spawn(RegTask(tab, "focus_read",
                        collectFormData(f, forms[f].fields, location[tab], TRUE), NoMsg))
    /\ UNCHANGED <<isRequestPending, formsData, toContent, fnResult, regRest>>

\* updateFormsData, content.js:154-173: the read resolved, the array built
RegRead(t) ==
    /\ t.pc \in {"focus_read", "ready_read"}
    /\ tasks' = Become(t, [t EXCEPT
            !.pc = IF t.pc = "focus_read" THEN "focus_write" ELSE "ready_write",
            !.data = updateFormsData(formsData, t.newForm, location[t.tab])])
    /\ UNCHANGED <<isRequestPending, formsData, toContent, used, fnResult, regRest>>

\* updateFormsData, content.js:175: the write applied.  fnResult keeps the
\* argument of the call that completed last.  With autoFill absent the focus
\* handler ends here (content.js:326-328).
RegWrite(t) ==
    /\ t.pc \in {"focus_write", "ready_write"}
    /\ formsData' = t.data
    /\ fnResult' = <<t.newForm>>
    /\ tasks' = IF t.pc = "focus_write" /\ ~getAutoFillSetting(prefs) THEN Finish(t)
                ELSE Become(t, [t EXCEPT !.pc = "ready_done", !.data = <<>>,
                                         !.newForm = NoFormData])
    /\ UNCHANGED <<isRequestPending, toContent, used, regRest>>

\* fillForm delivered to tab, content.js:368-372 and 246-259
RegTrigger(tab) ==
    /\ used.fill < MaxFill
    /\ extensionEnabled(prefs)
    /\ ~PendingBlocks(isRequestPending[tab])
    /\ used' = [used EXCEPT !.fill = @ + 1]
    /\ isRequestPending' = [isRequestPending EXCEPT ![tab] = TRUE]
    /\ tasks' = Spawn(RegTask(tab, "rfc_focused", NoFormData, NoMsg))
    /\ UNCHANGED <<formsData, toContent, fnResult, regRest>>

\* content.js:259-291 with the answer of the background, part_007:114-118
RegFocused(t) ==
    LET found == FocusedOf(formsData, location[t.tab])
        focusedForm == formsData[First(found)]
    IN  /\ t.pc = "rfc_focused"
        /\ tasks' = Finish(t)
        /\ IF found = {} THEN UNCHANGED <<isRequestPending, toContent>>
           ELSE IF focusedForm.fulfilled /\ useStoredCompletion(prefs)
           THEN /\ isRequestPending' = [isRequestPending EXCEPT ![t.tab] = FALSE]
                /\ UNCHANGED toContent
           ELSE /\ toContent' = Append(toContent,
                        [tab |-> t.tab,
                         msg |-> ReadyMsg(focusedForm.id, <<Instruction("#a", "Al", "text")>>)])
                /\ UNCHANGED isRequestPending
        /\ UNCHANGED <<formsData, used, fnResult, regRest>>

\* content.js:339-341
RegDeliver ==
    /\ toContent # <<>>
    /\ tasks' = Spawn(RegTask(Head(toContent).tab, "ready_get", NoFormData,
                              Head(toContent).msg))
    /\ toContent' = Tail(toContent)
    /\ UNCHANGED <<isRequestPending, formsData, used, fnResult, regRest>>

\* content.js:341-347
RegGet(t) ==
    LET m == t.msg
        found == RecordsOf(formsData, m.formId, location[t.tab])
        form == formsData[First(found)]
    IN  /\ t.pc = "ready_get"
        /\ tasks' =
                IF found = {} THEN Finish(t)
                ELSE Become(t, [t EXCEPT !.pc = "ready_read",
                        !.newForm = [form EXCEPT
                            !.fillInstructions =
                                mergeInstructions(form.hasFI, form.fillInstructions,
                                                  m.fillInstructions),
                            !.hasFI = TRUE,
                            !.fulfilled = TRUE]])
        /\ UNCHANGED <<isRequestPending, formsData, toContent, used, fnResult, regRest>>

\* content.js:349-355
RegDone(t) ==
    /\ t.pc = "ready_done"
    /\ tasks' = Finish(t)
    /\ isRequestPending' = [isRequestPending EXCEPT ![t.tab] = FALSE]
    /\ UNCHANGED <<formsData, toContent, used, fnResult, regRest>>

NextRegistry ==
    \/ \E tab \in Tabs, f \in FormIds : RegFocusIn(tab, f)
    \/ \E t \in Running : RegRead(t)
    \/ \E t \in Running : RegWrite(t)
    \/ \E tab \in Tabs : RegTrigger(tab)
    \/ \E t \in Running : RegFocused(t)
    \/ RegDeliver
    \/ \E t \in Running : RegGet(t)
    \/ \E t \in Running : RegDone(t)

SpecRegistry == InitRegistry /\ [][NextRegistry]_vars

\* the records of formsData with the key of record r
SameKey(data, r) == {j \in 1..Len(data) : data[j].id = r.id /\ data[j].url = r.url}

\* list has an instruction for every selector that old has one for
KeepsSelectors(old, list) ==
    \A i \in 1..Len(old) : \E j \in 1..Len(list) : list[j].selector = old[i].selector

(* Properties of the registry, under SpecRegistry *)

\* the step is the write of an updateFormsData call by activation t
IsWriteOf(t) ==
    /\ t.pc \in {"focus_write", "ready_write"}
    /\ formsData' = t.data
    /\ fnResult' = <<t.newForm>>
    /\ tasks' # tasks

\* record r is in data with its html, fulfilled flag and fill instructions
Holds(data, r) ==
    \E j \in SameKey(data, r) :
        /\ data[j].html = r.html
        /\ data[j].fulfilled = r.fulfilled
        /\ data[j].hasFI = r.hasFI
        /\ data[j].fillInstructions = r.fillInstructions

\* C12: a focus upsert deletes no record: every record stored for a url
\* other than the upserted form's is still in formsData afterwards, with its
\* html, fulfilled flag and fill instructions.  Stated for a call with no
\* other write between its read and its write, so that a record lost to an
\* interleaved write does not count.
C12_UpsertNeverDeletes ==
    [][\A t \in Running :
          (/\ IsWriteOf(t)
           /\ t.pc = "focus_write"
           /\ t.data = updateFormsData(formsData, t.newForm, location[t.tab])) =>
              \A i \in 1..Len(formsData) :
                  formsData[i].url # t.newForm.url => Holds(formsData', formsData[i])]_vars

\* C13: an updateFormsData write by the content script of tab T2 leaves what
\* the content script of tab T1 reads (the records of its page and their
\* focused flags) as it was.  Stated for a tab T1 that has stored a record.
C13_TabScoped ==
    [][\A t \in Running :
          (/\ IsWriteOf(t)
           /\ t.tab = "T2"
           /\ FocusedOf(formsData, location["T1"]) # {}) =>
              getFormsData(formsData', location["T1"]) =
                  getFormsData(formsData, location["T1"])]_vars

FocusedCount(data) == Cardinality({i \in 1..Len(data) : data[i].focused})

\* C14: formsData never holds more than one record with focused=true, and
\* right after the write of an updateFormsData call it holds exactly one.
C14_OneFocused ==
    /\ [](FocusedCount(formsData) <= 1)
    /\ [][(\E t \in Running : IsWriteOf(t)) => FocusedCount(formsData') = 1]_vars

\* focus upserts and a completion update of two forms have interleaved; two
\* records are stored and the older one, fulfilled, is no longer focused
C14_Witness ==
    /\ Len(formsData) = 2
    /\ formsData[1].fulfilled
    /\ ~formsData[1].focused
    /\ formsData[2].focused
    /\ used.focus = 2

\* C15: an updateFormsData call for a key that formsData already holds with
\* identical html (the state a first such call leaves), run with no other
\* write between its read and its write and with an argument that is a
\* snapshot or is the record itself, leaves exactly one record for the key,
\* focused, with the fulfilled flag and the fill instructions it had.
C15_UpsertIdempotent ==
    [][\A t \in Running :
          (/\ IsWriteOf(t)
           /\ t.data = updateFormsData(formsData, t.newForm, location[t.tab])
           /\ \E i \in SameKey(formsData, t.newForm) :
                 /\ formsData[i].html = t.newForm.html
                 /\ \/ ~t.newForm.hasFI
                    \/ /\ t.newForm.fulfilled = formsData[i].fulfilled
                       /\ formsData[i].hasFI
                       /\ t.newForm.fillInstructions = formsData[i].fillInstructions)
          => /\ Cardinality(SameKey(formsData', t.newForm)) = 1
             /\ \A i \in SameKey(formsData, t.newForm) :
                \A j \in SameKey(formsData', t.newForm) :
                    /\ formsData'[j].focused
                    /\ formsData'[j].fulfilled = formsData[i].fulfilled
                    /\ formsData'[j].hasFI = formsData[i].hasFI
                    /\ formsData'[j].fillInstructions = formsData[i].fillInstructions]_vars

\* the call that completed last was a second focus upsert of f1, made after
\* the completion update: the record is still fulfilled, with its instructions
C15_Witness ==
    /\ used.focus = 2
    /\ tasks = EmptyBag
    /\ fnResult # <<>>
    /\ ~fnResult[1].hasFI
    /\ fnResult[1].id = "f1"
    /\ Len(formsData) = 1
    /\ formsData[1].id = "f1"
    /\ formsData[1].focused
    /\ formsData[1].fulfilled
    /\ formsData[1].fillInstructions = <<Instruction("#a", "Al", "text")>>

\* C37: formsData never holds two records with the same id and url, however
\* the focus upserts and the completion updates of the tabs interleave.
C37_OneRecordPerKey ==
    \A i, j \in 1..Len(formsData) :
        (formsData[i].id = formsData[j].id /\ formsData[i].url = formsData[j].url)
        => i = j

\* f1 was focused twice and its completion update has written, and the
\* write of a focus upsert that had read before landed after it: the one
\* record of f1 is not fulfilled
C37_Witness ==
    /\ used.focus = 2
    /\ Len(formsData) = 1
    /\ formsData[1].id = "f1"
    /\ ~formsData[1].fulfilled
    /\ \E t \in Running : t.pc = "ready_done" /\ t.msg.formId = "f1"

----------------------------------------------------------------------------
(* Properties of the pipeline, under Spec *)

\* requests sent by the content script and not yet answered: in the
\* channel to the background, being processed there, or answered by a
\* message the content script has not received yet
Outstanding == Len(toBg) + Len(bgTasks) + Len(toContent)

\* activations of the content script at pc
AtPc(pc) == {t \in Running : t.pc = pc}

RECURSIVE SumCopies(_)
SumCopies(S) ==
    IF S = {} THEN 0
    ELSE LET t == CHOOSE x \in S : TRUE
         IN  CopiesIn(t, tasks) + SumCopies(S \ {t})

\* nothing is running and no message is in flight
Quiescent ==
    /\ tasks = EmptyBag
    /\ toBg = <<>>
    /\ bgTasks = <<>>
    /\ toContent = <<>>

\* C1: in one content-script context at most one requestFormCompletion
\* message is outstanding at any time, so at most one call into the model
\* gateway is in progress, whatever the interleaving of focus events,
\* fillForm messages, storage reads and deliveries.
C1_SingleFlight == Outstanding <= 1

\* two fillForm messages were handled while the first one's request is
\* still at the model: one call, the second trigger dropped
C1_Witness ==
    /\ used.fill = 2
    /\ tasks = EmptyBag
    /\ Len(bgTasks) = 1
    /\ bgTasks[1].pc = "llm"
    /\ isRequestPending
    /\ \A i \in 1..Len(formsData) : ~formsData[i].fulfilled

\* C2: when a formCompletionError is delivered, the content script removes
\* the processing mark from the requesting form and sets isRequestPending
\* to false.
C2_ErrorReleasesGuard ==
    [][(/\ toContent # <<>>
        /\ Head(toContent).action = "formCompletionError"
        /\ toContent' = Tail(toContent))
       => (/\ isRequestPending' = FALSE
           /\ forms'[Head(toContent).req].processing = FALSE)]_vars

\* C3: every formCompletionError message carries the id of the form of the
\* request that failed.
C3_ErrorCarriesFormId ==
    \A i \in 1..Len(toContent) :
        toContent[i].action = "formCompletionError" =>
            toContent[i].formId = toContent[i].req

\* C4: the cardStructure handed to promptLLM has every key in which
\* saveCard stores a secret equal to the empty string.
C4_CardStructureStripped ==
    \A c \in llmSent : \A k \in SecretKeys \cap DOMAIN c : c[k] = ""

HoldsSecret(fillInstructions) ==
    \E i \in 1..Len(fillInstructions) : fillInstructions[i].value \in SecretValues

\* C5: no formCompletionReady message and no fillInstructions stored in
\* formsData hold a real card value.
C5_NoSecretBeforeFill ==
    /\ \A i \in 1..Len(toContent) : ~HoldsSecret(toContent[i].fillInstructions)
    /\ \A i \in 1..Len(formsData) : ~HoldsSecret(formsData[i].fillInstructions)

\* C8: a trigger that finds no focused record of the page is a no-op: it
\* sends no request and isRequestPending is false afterwards.
C8_TriggerWithoutFocusIsNoOp ==
    [][(/\ FocusedOf(formsData, location) = {}
        /\ SumCopies(AtPc("rfc_focused")) = 1
        /\ \A t \in BagToSet(tasks') : t.pc # "rfc_focused")
       => (isRequestPending' = FALSE /\ toBg' = toBg)]_vars

\* C9: once every handler has finished, the record marked focused is the
\* form that most recently received focus.
C9_FocusedIsLatestFocus ==
    (Quiescent /\ used.last # "") =>
        /\ FocusedOf(formsData, location) # {}
        /\ \A i \in FocusedOf(formsData, location) : formsData[i].id = used.last

\* C10: when the content script looks up the record for a delivered
\* formCompletionReady about form F, it goes on to store the instructions in
\* the record of F, marked fulfilled.
C10_ReadyAppliedToItsForm ==
    [][(/\ SumCopies(AtPc("ready_get")) = 1
        /\ \A t \in BagToSet(tasks') : t.pc # "ready_get")
       => \E t \in AtPc("ready_get") : \E u \in BagToSet(tasks') :
            /\ u.pc = "ready_read"
            /\ u.msg = t.msg
            /\ u.newForm.id = t.msg.formId
            /\ u.newForm.fulfilled]_vars

\* C11: once a record is fulfilled it stays in formsData, fulfilled and
\* with its fill instructions, in every later state, whatever the
\* interleaving of the reads and writes of updateFormsData calls.
C11_FulfilledIsMonotonic ==
    [][\A i \in 1..Len(formsData) :
          formsData[i].fulfilled =>
              /\ SameKey(formsData', formsData[i]) # {}
              /\ \A j \in SameKey(formsData', formsData[i]) :
                    /\ formsData'[j].fulfilled
                    /\ formsData'[j].hasFI
                    /\ KeepsSelectors(formsData[i].fillInstructions,
                                      formsData'[j].fillInstructions)]_vars

\* the step ends the one activation that is at pc
Leaves(pc) ==
    /\ SumCopies(AtPc(pc)) = 1
    /\ \A u \in BagToSet(tasks') : u.pc # pc

C17_AbsentPrefsDefault ==
    [][/\ \A t \in AtPc("rfc_stored") :
            (/\ Leaves("rfc_stored")
             /\ t.newForm.fulfilled
             /\ prefs["useStoredCompletion"] = "absent")
            => (toBg' = toBg /\ isRequestPending' = FALSE)
       /\ \A t \in AtPc("focus_autofill") :
            (Leaves("focus_autofill") /\ prefs["autoFill"] = "absent")
            => tasks' = Finish(t)
       /\ \A t \in AtPc("rfc_enabled") :
            (/\ Leaves("rfc_enabled")
             /\ prefs["extensionEnabled"] = "absent"
             /\ ~isRequestPending)
            => (isRequestPending' /\ tasks' = Become(t, [t EXCEPT !.pc = "rfc_focused"]))]_vars

\* the step puts no formCompletionReady into the channel to the content script
NoReadyAdded ==
    \A i \in 1..Len(toContent') :
        toContent'[i].action = "formCompletionReady" =>
            (i <= Len(toContent) /\ toContent[i] = toContent'[i])

FieldsUnchanged == \A f \in DOMAIN forms : forms'[f].fields = forms[f].fields

\* C22: a completion attempt that fails (no gateway, a failed call, content
\* that is not the expected JSON) sends no formCompletionReady and changes
\* neither a field nor formsData, and the delivery of its error changes
\* neither a field nor formsData and starts no handler.
C22_FailureLeavesForm ==
    [][/\ \A b \in 1..Len(bgTasks) : \A a \in LLMAnswers :
            (AnswerFails(a, cardManager) /\ BgAnswer(b, a))
            => (NoReadyAdded /\ FieldsUnchanged /\ formsData' = formsData)
       /\ (llmInterrogator = "undefined" /\ BgReceive)
            => (NoReadyAdded /\ FieldsUnchanged /\ formsData' = formsData)
       /\ DeliverError
            => (FieldsUnchanged /\ formsData' = formsData /\ tasks' = tasks)]_vars

\* the one request, for the one form focused, failed at the model and its
\* error was delivered: the fields are empty and the record is unfulfilled
C22_Witness ==
    /\ used.focus = 1
    /\ used.fill = 1
    /\ llmInterrogator = "configured"
    /\ Quiescent
    /\ forms["f1"].processing
    /\ Len(formsData) = 1
    /\ formsData[1].id = "f1"
    /\ ~formsData[1].fulfilled
    /\ ~formsData[1].hasFI
    /\ \A i \in 1..Len(forms["f1"].fields) : forms["f1"].fields[i].value = ""

\* data holds a focused record of the form
HasFocused(data, formId) ==
    \E i \in 1..Len(data) : data[i].id = formId /\ data[i].focused

\* the step starts no activation of requestFormCompletion
NoTriggerStarted ==
    \A u \in BagToSet(tasks') :
        u.pc \in {"rfc_enabled", "rfc_focused", "rfc_stored"} =>
            CopiesIn(u, tasks') <= CopiesIn(u, tasks)

\* C26: with autoFill false, the handler of a focus event writes a registry
\* that holds the focused record of its form, and none of its steps sends a
\* requestFormCompletion message, starts requestFormCompletion or changes
\* isRequestPending.
C26_FocusWithoutAutoFill ==
    [][prefs["autoFill"] = "false" =>
        /\ \A f \in FormIds : \A k \in BOOLEAN :
                FocusIn(f, k) => (toBg' = toBg /\ isRequestPending' = isRequestPending)
        /\ \A t \in Running :
            /\ FocusRead(t) =>
                    \E u \in BagToSet(tasks') :
                        /\ u.pc = "focus_write"
                        /\ HasFocused(u.data, t.newForm.id)
                        /\ CopiesIn(u, tasks') > CopiesIn(u, tasks)
            /\ FocusWrite(t) =>
                    \A i \in 1..Len(t.data) :
                        t.data[i].focused => HasFocused(formsData', t.data[i].id)
            /\ (FocusRead(t) \/ FocusWrite(t) \/ FocusAutoFill(t)) =>
                    /\ toBg' = toBg
                    /\ isRequestPending' = isRequestPending
                    /\ NoTriggerStarted]_vars

\* autoFill is false and the one focus event, on f1, has been handled: f1's
\* record is stored focused, nothing was sent and no request is pending
C26_Witness ==
    /\ prefs["autoFill"] = "false"
    /\ used.focus = 1
    /\ used.fill = 0
    /\ Quiescent
    /\ HasFocused(formsData, "f1")
    /\ llmSent = {}
    /\ ~isRequestPending

\* C27: while extensionEnabled is false no request is pending or in flight,
\* nothing reaches the model and no field is filled, and a trigger ends at
\* its first check with formsData as it was.
C27_DisabledTriggerIsNoOp ==
    /\ [](prefs["extensionEnabled"] = "false" =>
            /\ ~isRequestPending
            /\ Outstanding = 0
            /\ llmSent = {}
            /\ forms = InitialForms
            /\ events = <<>>)
    /\ [][prefs["extensionEnabled"] = "false" =>
            \A t \in Running :
                RfcEnabled(t) => (formsData' = formsData /\ tasks' = Finish(t))]_vars

\* the extension is disabled, f1 was focused and the popup asked for a fill:
\* both have been handled and nothing is pending
C27_Witness ==
    /\ prefs["extensionEnabled"] = "false"
    /\ used.focus = 1
    /\ used.fill = 1
    /\ Quiescent
    /\ HasFocused(formsData, "f1")
    /\ ~isRequestPending

\* C31: the handler of a delivered formCompletionReady always ends with the
\* processing mark of the form removed and isRequestPending false, also when
\* the record of the form is not found.
C31_ReadyReleasesGuard ==
    [][\A t \in Running :
        (t.msg.action = "formCompletionReady" /\ tasks' = Finish(t))
        => (isRequestPending' = FALSE /\ ~forms'[t.msg.formId].processing)]_vars

\* requests the background has received or is about to and has not answered
InHandling == Len(toBg) + Len(bgTasks)

\* C32: the handling of a requestFormCompletion message ends with exactly
\* one message sent to the tab, a formCompletionReady or a
\* formCompletionError for the form of the request: a step that sends a
\* message sends one and ends one handling, and no handling ends without.
C32_ExactlyOneResponse ==
    [][IF Len(toContent') > Len(toContent)
       THEN /\ Len(toContent') = Len(toContent) + 1
            /\ InHandling' = InHandling - 1
            /\ toContent'[Len(toContent')].action
                    \in {"formCompletionReady", "formCompletionError"}
            /\ \A i \in 1..Len(toContent) : toContent'[i] = toContent[i]
       ELSE InHandling' >= InHandling]_vars

\* a request was answered with a formCompletionReady, not yet delivered, and
\* no request is left with the background
C32_Witness ==
    /\ Len(toContent) = 1
    /\ toContent[1].action = "formCompletionReady"
    /\ InHandling = 0
    /\ llmSent # {}
    /\ isRequestPending

\* C33: when the handler of a formCompletionReady for form F sets
\* isRequestPending to false, formsData holds F's record fulfilled, with the
\* instructions of the message among its fillInstructions (so that a trigger
\* with useStoredCompletion true takes the stored plan).
C33_WriteBeforeRelease ==
    [][\A t \in AtPc("ready_done") :
        (tasks' = Finish(t) /\ isRequestPending /\ ~isRequestPending')
        => \E i \in RecordsOf(formsData', t.msg.formId, location) :
                /\ formsData'[i].fulfilled
                /\ formsData'[i].hasFI
                /\ KeepsSelectors(t.msg.fillInstructions,
                                  formsData'[i].fillInstructions)]_vars

\* C34: a model response that omits cardFillInstructions is answered with a
\* formCompletionReady carrying exactly the personalFillInstructions, with
\* or without a current card.
C34_OmittedCardAnsweredReady ==
    [][\A b \in 1..Len(bgTasks) : \A a \in LLMAnswers :
        (a.ok /\ ~a.hasCard /\ BgAnswer(b, a))
        => toContent'[Len(toContent')] = ReadyMsg(bgTasks[b].formData.id, a.personal)]_vars

----------------------------------------------------------------------------
(* mergeInstructions as a function of its arguments: the specification     *)
(* draws the lists (fnArgs) and applies the function (fnResult).           *)

\* instructions of a drawn list
MaxMerge == 2

MergeEntries ==
    { Instruction(sel, v, "text") : sel \in {"#a", "#b", "#c"}, v \in {"x", "y"} }

RECURSIVE ListsUpTo(_)
ListsUpTo(n) ==
    IF n = 0 THEN {<<>>}
    ELSE ListsUpTo(n - 1) \cup
         { Append(l, e) : l \in {m \in ListsUpTo(n - 1) : Len(m) = n - 1},
                          e \in MergeEntries }

DistinctSelectors(list) ==
    \A i, j \in 1..Len(list) : list[i].selector = list[j].selector => i = j

\* the stored list is undefined (hasExisting false) or has distinct
\* selectors, as mergeInstructions leaves it; the incoming list is any list
InitMerge ==
    /\ IdleRest
    /\ forms = InitialForms
    /\ formsData = <<>>
    /\ fnArgs \in { [hasExisting |-> h, existing |-> e, incoming |-> n] :
                        h \in BOOLEAN,
                        e \in {l \in ListsUpTo(MaxMerge) : DistinctSelectors(l)},
                        n \in ListsUpTo(MaxMerge) }
    /\ ~fnArgs.hasExisting => fnArgs.existing = <<>>
    /\ fnResult = <<>>

MergeCall ==
    /\ fnResult = <<>>
    /\ fnResult' = <<mergeInstructions(fnArgs.hasExisting, fnArgs.existing,
                                       fnArgs.incoming)>>
    /\ UNCHANGED <<isRequestPending, formsData, prefs, forms, tasks, toBg, bgTasks,
                   toContent, llmInterrogator, cardManager, llmSent, events,
                   location, used, fnArgs>>

NextMerge == MergeCall

SpecMerge == InitMerge /\ [][NextMerge]_vars

Selectors(list) == {list[i].selector : i \in 1..Len(list)}

\* the last entry of list with the selector
LastOf(list, selector) ==
    list[CHOOSE i \in 1..Len(list) :
            /\ list[i].selector = selector
            /\ \A j \in (i + 1)..Len(list) : list[j].selector # selector]

AddedOnce(existing, incoming) ==
    LET firsts == {j \in 1..Len(incoming) :
                      /\ incoming[j].selector \notin Selectors(existing)
                      /\ \A h \in 1..(j - 1) : incoming[h].selector # incoming[j].selector}
        F[j \in 0..Len(incoming)] ==
            IF j = 0 THEN <<>>
            ELSE IF j \in firsts
                 THEN Append(F[j - 1], LastOf(incoming, incoming[j].selector))
                 ELSE F[j - 1]
    IN  F[Len(incoming)]

C35_StoredSelectorsDistinct ==
    \A k \in 1..Len(fnResult) : DistinctSelectors(fnResult[k])

----------------------------------------------------------------------------
(* LLMInterrogator.promptLLM, part_012:30-76, one call: fnArgs is the      *)
(* call's position and what it has seen, events the HTTP requests sent,    *)
(* fnResult what the call returned or threw.  Time passes in seconds.      *)

\* the settlements of fetch: a response with a status, or a rejection
FetchOutcomes == {"200", "429", "500", "reject"}

\* response.headers.get('retry-after'): null when absent, else the text
RetryAfterHeaders == {"null", "1", "2", "date"}

\* retryAfter * 1000 in setTimeout, part_012:51, in seconds: null gives 0,
\* text that is not a number gives NaN, which setTimeout takes as 0
RetryAfterSeconds(h) == IF h = "1" THEN 1 ELSE IF h = "2" THEN 2 ELSE 0

\* part_012:48: the status that makes promptLLM send the request again
ShouldRetryMut(status) == status # "200"
ShouldRetry(status) == status = "429"

\* response.ok
Ok(status) == status = "200"

GatewayConfigs ==
    { [apiSpecification |-> a, model |-> m] : a \in {"openai", "azure"}, m \in {"", "gpt"} }

InitGateway ==
    /\ isRequestPending = FALSE
    /\ formsData = <<>>
    /\ prefs = [k \in PrefKeys |-> "absent"]
    /\ forms = InitialForms
    /\ tasks = EmptyBag
    /\ toBg = <<>>
    /\ bgTasks = <<>>
    /\ toContent = <<>>
    /\ llmInterrogator \in GatewayConfigs
    /\ cardManager = NoCard
    /\ llmSent = {}
    /\ events = <<>>
    /\ location = "u1"
    /\ used = [focus |-> 0, fill |-> 0, last |-> "", stored |-> ""]
    /\ fnArgs = [pc |-> "idle", first |-> "none", second |-> "none",
                 header |-> "none", waited |-> 0, aborted |-> FALSE]
    /\ fnResult = <<>>

gwRest == <<isRequestPending, formsData, prefs, forms, tasks, toBg, bgTasks,
            toContent, llmInterrogator, cardManager, llmSent, location, used>>

\* a fetch, or the read of a response body, whose signal is aborted rejects
\* with an AbortError (part_012:151: signal of this.abortController)
Rejects(args) == args.aborted

\* sendRequest, part_012:116-153: fetch with an aborted signal rejects
\* without a request going out
SendRequest(n) ==
    IF Rejects(fnArgs) THEN events
    ELSE Append(events, [n |-> n, api |-> llmInterrogator.apiSpecification])

Throw(message) == <<[kind |-> "error", message |-> message, from |-> 0]>>
Return(n) == <<[kind |-> "content", message |-> "", from |-> n]>>

\* part_012:30-45: a fresh AbortController, the first request
GwCall ==
    /\ fnArgs.pc = "idle"
    /\ fnArgs' = [fnArgs EXCEPT !.pc = "fetch1"]
    /\ events' = Append(events, [n |-> 1, api |-> llmInterrogator.apiSpecification])
    /\ UNCHANGED <<fnResult, gwRest>>

\* part_012:45-57: the first fetch settled; a response that is not retried
\* has its body read next (part_012:64-68)
GwRespond1(r) ==
    /\ fnArgs.pc = "fetch1"
    /\ ~Rejects(fnArgs)
    /\ IF r = "reject"
       THEN /\ fnArgs' = [fnArgs EXCEPT !.pc = "done", !.first = r]
            /\ fnResult' = Throw("fetch")
       ELSE IF ShouldRetry(r)
       THEN /\ \E h \in RetryAfterHeaders :
                    fnArgs' = [fnArgs EXCEPT !.pc = "wait", !.first = r, !.header = h]
            /\ UNCHANGED fnResult
       ELSE /\ fnArgs' = [fnArgs EXCEPT !.pc = "body1", !.first = r]
            /\ UNCHANGED fnResult
    /\ UNCHANGED <<events, gwRest>>

\* a second has passed of the wait of part_012:51
GwTick ==
    /\ fnArgs.pc = "wait"
    /\ fnArgs.waited < RetryAfterSeconds(fnArgs.header)
    /\ fnArgs' = [fnArgs EXCEPT !.waited = @ + 1]
    /\ UNCHANGED <<events, fnResult, gwRest>>

\* part_012:51-52: the timer fired, the second request
GwRetry ==
    /\ fnArgs.pc = "wait"
    /\ fnArgs.waited = RetryAfterSeconds(fnArgs.header)
    /\ fnArgs' = [fnArgs EXCEPT !.pc = "fetch2"]
    /\ events' = SendRequest(2)
    /\ UNCHANGED <<fnResult, gwRest>>

\* part_012:52: the second fetch settled; a response has its body read next
GwRespond2(r) ==
    /\ fnArgs.pc = "fetch2"
    /\ ~Rejects(fnArgs)
    /\ IF r = "reject"
       THEN /\ fnArgs' = [fnArgs EXCEPT !.pc = "done", !.second = r]
            /\ fnResult' = Throw("fetch")
       ELSE /\ fnArgs' = [fnArgs EXCEPT !.pc = "body2", !.second = r]
            /\ UNCHANGED fnResult
    /\ UNCHANGED <<events, gwRest>>

\* part_012:64-75: response.json() resolved; the content of a successful
\* response is returned, the error of any other is thrown
GwBody ==
    /\ fnArgs.pc \in {"body1", "body2"}
    /\ ~Rejects(fnArgs)
    /\ fnArgs' = [fnArgs EXCEPT !.pc = "done"]
    /\ fnResult' =
            LET n == IF fnArgs.pc = "body1" THEN 1 ELSE 2
                status == IF n = 1 THEN fnArgs.first ELSE fnArgs.second
            IN  IF Ok(status) THEN Return(n) ELSE Throw("Error in LLM request")
    /\ UNCHANGED <<events, gwRest>>

\* abortRequest, part_012:159-161, while the call is in progress
GwAbort ==
    /\ fnArgs.pc \in {"fetch1", "wait", "fetch2", "body1", "body2"}
    /\ ~fnArgs.aborted
    /\ fnArgs' = [fnArgs EXCEPT !.aborted = TRUE]
    /\ UNCHANGED <<events, fnResult, gwRest>>

\* part_012:54-58: the pending fetch rejected with an AbortError
GwAborted ==
    /\ fnArgs.pc \in {"fetch1", "fetch2"}
    /\ fnArgs.aborted
    /\ fnArgs' = [fnArgs EXCEPT !.pc = "done",
                                !.first = IF fnArgs.pc = "fetch1" THEN "abort" ELSE @,
                                !.second = IF fnArgs.pc = "fetch2" THEN "abort" ELSE @]
    /\ fnResult' = Throw("LLM request was aborted")
    /\ UNCHANGED <<events, gwRest>>

\* part_012:64-68: response.json() rejected with the AbortError, outside the
\* try of part_012:44-62, so the AbortError itself leaves promptLLM
GwAbortedBody ==
    /\ fnArgs.pc \in {"body1", "body2"}
    /\ fnArgs.aborted
    /\ fnArgs' = [fnArgs EXCEPT !.pc = "done"]
    /\ fnResult' = Throw("AbortError")
    /\ UNCHANGED <<events, gwRest>>

NextGateway ==
    \/ GwCall
    \/ \E r \in FetchOutcomes : GwRespond1(r)
    \/ GwTick
    \/ GwRetry
    \/ \E r \in FetchOutcomes : GwRespond2(r)
    \/ GwBody
    \/ GwAbort
    \/ GwAborted
    \/ GwAbortedBody

SpecGateway == InitGateway /\ [][NextGateway]_vars

----------------------------------------------------------------------------
(* The gateway's configuration.  prefs is chrome.storage.sync (the stored  *)
(* models and currentModel), fnArgs the background's ModelManager (its     *)
(* copy of them, loaded by init at onInstalled, part_007:21-22),           *)
(* llmInterrogator the options the gateway was built from, toBg the        *)
(* storage.onChanged events not yet delivered, bgTasks the activations of  *)
(* initializeLLMInterrogator at their await, events the changes made and   *)
(* llmSent the requests sent.                                              *)

\* changes of the stored configuration
MaxChanges == 2

Labels == {"m1", "m2"}
ApiKeys == {"k1", "k2"}

NoGateway == [label |-> "undefined", apiKey |-> ""]

\* ModelManager.getModel, model-manager.js:391-397, on the manager mm;
\* the label "null" stands for null
getModel(mm, modelLabel) ==
    LET label == IF modelLabel = "null" THEN mm.currentModel ELSE modelLabel
    IN  IF label \in Labels /\ mm.models[label] # "none"
        THEN [label |-> label, apiKey |-> mm.models[label]]
        ELSE NoGateway

InitConfig ==
    /\ isRequestPending = FALSE
    /\ formsData = <<>>
    /\ forms = InitialForms
    /\ tasks = EmptyBag
    /\ toContent = <<>>
    /\ cardManager = NoCard
    /\ location = "u1"
    /\ used = [focus |-> 0, fill |-> 0, last |-> "", stored |-> ""]
    /\ fnResult = <<>>
    /\ prefs \in { [models |-> m, currentModel |-> c] :
                        m \in [Labels -> {"none", "k1"}], c \in Labels \cup {"null"} }
    /\ IF \A l \in Labels : prefs.models[l] = "none"
       THEN prefs.currentModel = "null"
       ELSE prefs.currentModel \in Labels /\ prefs.models[prefs.currentModel] # "none"
    /\ fnArgs = prefs
    /\ llmInterrogator = getModel(prefs, "null")
    /\ toBg = <<>>
    /\ bgTasks = <<>>
    /\ events = <<>>
    /\ llmSent = {}

cfgRest == <<isRequestPending, formsData, forms, tasks, toContent, cardManager,
             location, used, fnResult, fnArgs>>

\* chrome.storage.onChanged reports the keys whose value changed
Changed(old, new) ==
    IF old = new THEN <<>>
    ELSE <<[currentModel |-> old.currentModel # new.currentModel,
            newValue |-> new.currentModel]>>

\* the options page saves a model, model-manager.js:280-310 and 322-330
SaveModel(l, k) ==
    LET new == [models |-> [prefs.models EXCEPT ![l] = k], currentModel |-> l]
    IN  /\ Len(events) < MaxChanges
        /\ prefs' = new
        /\ events' = Append(events, "saveModel")
        /\ toBg' = toBg \o Changed(prefs, new)
        /\ UNCHANGED <<bgTasks, llmInterrogator, llmSent, cfgRest>>

\* the popup selects a stored model, model-manager.js:412-430
SelectModel(l) ==
    LET new == [prefs EXCEPT !.currentModel = l]
    IN  /\ Len(events) < MaxChanges
        /\ prefs.models[l] # "none"
        /\ prefs' = new
        /\ events' = Append(events, "selectModel")
        /\ toBg' = toBg \o Changed(prefs, new)
        /\ UNCHANGED <<bgTasks, llmInterrogator, llmSent, cfgRest>>

\* the background's storage.onChanged listener, part_007:48-53, up to the
\* await inside initializeLLMInterrogator, part_007:131-137: the model is
\* looked up in the background's ModelManager
OnChanged ==
    /\ toBg # <<>>
    /\ toBg' = Tail(toBg)
    /\ bgTasks' = IF Head(toBg).currentModel
                  THEN Append(bgTasks, getModel(fnArgs, Head(toBg).newValue))
                  ELSE bgTasks
    /\ UNCHANGED <<prefs, events, llmInterrogator, llmSent, cfgRest>>

\* initializeLLMInterrogator, part_007:139-154: without a model it throws
\* and the gateway stays as it was
Initialize ==
    /\ bgTasks # <<>>
    /\ bgTasks' = Tail(bgTasks)
    /\ llmInterrogator' = IF Head(bgTasks) = NoGateway THEN llmInterrogator
                          ELSE Head(bgTasks)
    /\ UNCHANGED <<prefs, events, toBg, llmSent, cfgRest>>

\* processFormCompletion, part_007:62-96, sends its request through the
\* gateway; settled says that no change is still on its way to the gateway
ProcessFormCompletion ==
    /\ llmInterrogator # NoGateway
    /\ llmSent' = llmSent \cup {[with |-> llmInterrogator,
                                  stored |-> getModel(prefs, "null"),
                                  settled |-> toBg = <<>> /\ bgTasks = <<>>]}
    /\ UNCHANGED <<prefs, events, toBg, bgTasks, llmInterrogator, cfgRest>>

NextConfig ==
    \/ \E l \in Labels, k \in ApiKeys : SaveModel(l, k)
    \/ \E l \in Labels : SelectModel(l)
    \/ OnChanged
    \/ Initialize
    \/ ProcessFormCompletion

SpecConfig == InitConfig /\ [][NextConfig]_vars

\* C20: a request of processFormCompletion made when every storage change
\* has been delivered and handled goes out with the model and API key that
\* storage holds for the current model.
C20_UsesStoredConfig ==
    \A r \in llmSent : r.settled => r.with = r.stored

----------------------------------------------------------------------------
(* The profile and the card of a completion.  prefs is chrome.storage.sync *)
(* (card: the stored cards and currentCard, profile: the stored profiles   *)
(* and currentProfile), cardManager the background's CardManager and       *)
(* fnArgs the background's ProfileManager, both loaded by init at          *)
(* onInstalled (part_007:17-18, 28-29), toBg the storage.onChanged events  *)
(* not yet delivered, events the changes made, llmSent what the            *)
(* completions were built from.                                            *)

ProfileNames == {"home", "work"}

\* the card of TheCard's name saved again with another number, and a card
\* of another name
EditedCard == [TheCard EXCEPT !["number"] = "5500"]
OtherCard == [TheCard EXCEPT !["name"] = "amex", !["number"] = "3700"]

\* ProfileManager.getProfile(null, true).info, profile-manager.js:395-425:
\* the values of the current profile, none without a current or stored one
getProfile(pm) ==
    IF pm.currentProfile \in ProfileNames /\ pm.profiles[pm.currentProfile] # "none"
    THEN pm.profiles[pm.currentProfile]
    ELSE ""

\* CardManager.saveCard, card-manager.js:253-285, on the manager cm
saveCard(cm, newCard) ==
    LET existing == {i \in 1..Len(cm.cards) : cm.cards[i]["name"] = newCard["name"]}
    IN  [cards |-> IF existing # {} THEN [cm.cards EXCEPT ![First(existing)] = newCard]
                   ELSE Append(cm.cards, newCard),
         currentCard |-> newCard["name"]]

\* the instructions the model returns for the card, with placeholders
CardPlaceholders == <<Instruction("#n", "number", "text")>>

InitManagers ==
    /\ isRequestPending = FALSE
    /\ formsData = <<>>
    /\ forms = InitialForms
    /\ tasks = EmptyBag
    /\ toContent = <<>>
    /\ bgTasks = <<>>
    /\ llmInterrogator = "configured"
    /\ location = "u1"
    /\ used = [focus |-> 0, fill |-> 0, last |-> "", stored |-> ""]
    /\ fnResult = <<>>
    /\ prefs \in { [card |-> c, profile |-> [profiles |-> ps, currentProfile |-> cp]] :
                        c \in {NoCard, OneCard},
                        ps \in [ProfileNames -> {"none", "Al"}],
                        cp \in ProfileNames \cup {"null"} }
    /\ IF \A n \in ProfileNames : prefs.profile.profiles[n] = "none"
       THEN prefs.profile.currentProfile = "null"
       ELSE /\ prefs.profile.currentProfile \in ProfileNames
            /\ prefs.profile.profiles[prefs.profile.currentProfile] # "none"
    /\ cardManager = prefs.card
    /\ fnArgs = prefs.profile
    /\ toBg = <<>>
    /\ events = <<>>
    /\ llmSent = {}

mgrRest == <<isRequestPending, formsData, forms, tasks, toContent, bgTasks,
             llmInterrogator, location, used, fnResult, cardManager, fnArgs>>

\* a write of chrome.storage.sync that changes a value raises onChanged
StoreSync(new, what) ==
    /\ Len(events) < MaxChanges
    /\ prefs' = new
    /\ events' = Append(events, what)
    /\ toBg' = IF new = prefs THEN toBg ELSE Append(toBg, what)
    /\ UNCHANGED <<llmSent, mgrRest>>

\* the options page saves a card, card-manager.js:253-285 and 297-305
SaveCard(c) == StoreSync([prefs EXCEPT !.card = saveCard(@, c)], "cards")

\* the popup selects a stored card, card-manager.js:378-394
SelectCard(name) ==
    /\ \E i \in 1..Len(prefs.card.cards) : prefs.card.cards[i]["name"] = name
    /\ StoreSync([prefs EXCEPT !.card.currentCard = name], "currentCard")

\* the options page saves a profile, profile-manager.js:248-303
SaveProfile(name, info) ==
    StoreSync([prefs EXCEPT !.profile = [profiles |-> [@.profiles EXCEPT ![name] = info],
                                         currentProfile |-> name]], "profiles")

\* the popup selects a profile, profile-manager.js:538-549
SelectProfile(name) ==
    /\ prefs.profile.profiles[name] # "none"
    /\ StoreSync([prefs EXCEPT !.profile.currentProfile = name], "currentProfile")

\* the background's storage.onChanged listener, part_007:48-53: changes
\* other than currentModel are ignored
OnChangedIgnored ==
    /\ toBg # <<>>
    /\ toBg' = Tail(toBg)
    /\ UNCHANGED <<prefs, events, llmSent, mgrRest>>

\* processFormCompletion, part_007:74-111: personalInfo, cardStructure and
\* the card values come from the background's managers; stored is what
\* managers loaded from storage now would give; settled says that no change
\* is still to be delivered
BuildCompletion ==
    /\ llmSent' = llmSent \cup
            {[personalInfo |-> getProfile(fnArgs),
              cardStructure |-> StrippedCard(cardManager),
              cardValues |-> replaceCardPlaceholders(cardManager, CardPlaceholders),
              stored |-> [personalInfo |-> getProfile(prefs.profile),
                          cardStructure |-> StrippedCard(prefs.card),
                          cardValues |-> replaceCardPlaceholders(prefs.card,
                                                                 CardPlaceholders)],
              settled |-> toBg = <<>>]}
    /\ UNCHANGED <<prefs, events, toBg, mgrRest>>

NextManagers ==
    \/ \E c \in {TheCard, EditedCard, OtherCard} : SaveCard(c)
    \/ \E name \in {"visa", "amex"} : SelectCard(name)
    \/ \E name \in ProfileNames, info \in {"Al", "Bo"} : SaveProfile(name, info)
    \/ \E name \in ProfileNames : SelectProfile(name)
    \/ OnChangedIgnored
    \/ BuildCompletion

SpecManagers == InitManagers /\ [][NextManagers]_vars

\* C21: a completion built when every storage change has been delivered
\* takes personalInfo, cardStructure and the card values from the profile
\* and the card that storage holds now.
C21_UsesStoredProfileAndCard ==
    \A r \in llmSent :
        r.settled =>
            /\ r.personalInfo = r.stored.personalInfo
            /\ r.cardStructure = r.stored.cardStructure
            /\ r.cardValues = r.stored.cardValues

----------------------------------------------------------------------------
(* Construction of the gateway.  initializeLLMInterrogator is called with  *)
(* the model getModel returned, drawn here from the models an options page *)
(* can store and the absent model; completion requests arrive in between.  *)
(* In this specification llmInterrogator is the gateway object or          *)
(* NoInterrogator, fnArgs the model of the latest call, fnResult its       *)
(* outcome, used.focus the number of calls, toBg the requests received,    *)
(* toContent the answers and llmSent the HTTP requests sent.               *)

\* calls of initializeLLMInterrogator in one run
MaxInit == 2
\* completion requests in one run
MaxRequests == 2

NoModel == [apiSpec |-> "undefined", endpoint |-> "", apiKey |-> "", name |-> ""]

StoredModels ==
    [apiSpec : {"", "openai", "azure", "other"},
     endpoint : {"", "api.x", "https://api.x"},
     apiKey : {"", "k1"},
     name : {"gpt"}]

NoInterrogator == [apiSpecification |-> "undefined", endpoint |-> "", apiKey |-> "",
                   model |-> ""]

\* options.endpoint.replace(/^https?:\/\//, ''), part_012:17
StripScheme(endpoint) == IF endpoint = "https://api.x" THEN "api.x" ELSE endpoint

\* the constructor of LLMInterrogator, part_012:7-20: the object, or
\* NoInterrogator when it throws
LLMInterrogator(options) ==
    IF options.apiSpecification \notin {"azure", "openai"} \/ options.endpoint = ""
    THEN NoInterrogator
    ELSE [apiSpecification |-> options.apiSpecification,
          endpoint |-> StripScheme(options.endpoint),
          apiKey |-> options.apiKey,
          model |-> options.model]

\* part_007:143: model.apiSpec && model.endpoint && model.apiKey
HasRequiredMut(model) == TRUE
HasRequired(model) == model.apiSpec # "" /\ model.endpoint # "" /\ model.apiKey # ""

\* initializeLLMInterrogator, part_007:139-152, on the model found: the
\* gateway it constructs, or NoInterrogator when it throws before the
\* assignment of line 152
initializeLLMInterrogator(model) ==
    IF model = NoModel \/ ~HasRequired(model) THEN NoInterrogator
    ELSE LLMInterrogator([apiSpecification |-> model.apiSpec,
                          endpoint |-> model.endpoint,
                          apiKey |-> model.apiKey,
                          model |-> model.name])

InitConstruct ==
    /\ isRequestPending = FALSE
    /\ formsData = <<>>
    /\ prefs = [k \in PrefKeys |-> "absent"]
    /\ forms = InitialForms
    /\ tasks = EmptyBag
    /\ toBg = <<>>
    /\ bgTasks = <<>>
    /\ toContent = <<>>
    /\ llmInterrogator = NoInterrogator
    /\ cardManager = NoCard
    /\ llmSent = {}
    /\ events = <<>>
    /\ location = "u1"
    /\ used = [focus |-> 0, fill |-> 0, last |-> "", stored |-> ""]
    /\ fnArgs = NoModel
    /\ fnResult = "none"

conRest == <<isRequestPending, formsData, prefs, forms, tasks, bgTasks, cardManager,
             events, location>>

\* a call of initializeLLMInterrogator (part_007:25, 51) runs to its end:
\* when it throws, llmInterrogator keeps its value
InitializeGateway(model) ==
    LET made == initializeLLMInterrogator(model)
    IN  /\ used.focus < MaxInit
        /\ used' = [used EXCEPT !.focus = @ + 1]
        /\ fnArgs' = model
        /\ fnResult' = IF made = NoInterrogator THEN "throws" ELSE "constructed"
        /\ llmInterrogator' = IF made = NoInterrogator THEN llmInterrogator ELSE made
        /\ UNCHANGED <<toBg, toContent, llmSent, conRest>>

\* a content script sends requestFormCompletion for a form, content.js:278
RequestArrives(f) ==
    /\ used.fill < MaxRequests
    /\ used' = [used EXCEPT !.fill = @ + 1]
    /\ toBg' = Append(toBg, f)
    /\ UNCHANGED <<llmInterrogator, toContent, llmSent, fnArgs, fnResult, conRest>>

\* processFormCompletion, part_007:62-96: without a gateway the error is
\* sent at once; with one the request goes out through sendRequest
HandleRequest ==
    /\ toBg # <<>>
    /\ toBg' = Tail(toBg)
    /\ IF llmInterrogator = NoInterrogator
       THEN /\ toContent' = Append(toContent, "formCompletionError")
            /\ UNCHANGED llmSent
       ELSE /\ llmSent' = llmSent \cup {[form |-> Head(toBg), with |-> llmInterrogator]}
            /\ UNCHANGED toContent
    /\ UNCHANGED <<llmInterrogator, used, fnArgs, fnResult, conRest>>

NextConstruct ==
    \/ \E model \in StoredModels \cup {NoModel} : InitializeGateway(model)
    \/ \E f \in FormIds : RequestArrives(f)
    \/ HandleRequest

SpecConstruct == InitConstruct /\ [][NextConstruct]_vars

\* the configuration has a supported apiSpec, an endpoint and an API key
Complete(model) ==
    /\ model.apiSpec \in {"openai", "azure"}
    /\ model.endpoint # ""
    /\ model.apiKey # ""

\* C28: a gateway exists only with a supported apiSpecification, an endpoint
\* and an API key; a call of initializeLLMInterrogator on a configuration
\* that lacks one of them throws and constructs nothing, and on a complete
\* one it constructs the gateway; a request handled while no gateway exists
\* is answered with formCompletionError and sends no HTTP request.
C28_GatewayNeedsConfig ==
    /\ [](llmInterrogator # NoInterrogator =>
            /\ llmInterrogator.apiSpecification \in {"openai", "azure"}
            /\ llmInterrogator.endpoint # ""
            /\ llmInterrogator.apiKey # "")
    /\ [][/\ \A model \in StoredModels \cup {NoModel} :
                InitializeGateway(model) =>
                    IF model # NoModel /\ Complete(model)
                    THEN fnResult' = "constructed" /\ llmInterrogator'.apiKey = model.apiKey
                    ELSE fnResult' = "throws" /\ llmInterrogator' = llmInterrogator
           /\ (HandleRequest /\ llmInterrogator = NoInterrogator) =>
                (/\ toContent' = Append(toContent, "formCompletionError")
                 /\ llmSent' = llmSent)]_vars

\* the only call met a model without an API key and threw; a request was
\* then answered with the error and nothing was sent
C28_Witness ==
    /\ used.focus = 1
    /\ fnArgs.apiSpec = "openai"
    /\ fnArgs.endpoint = "api.x"
    /\ fnArgs.apiKey = ""
    /\ fnResult = "throws"
    /\ llmInterrogator = NoInterrogator
    /\ toContent = <<"formCompletionError">>
    /\ toBg = <<>>
    /\ llmSent = {}

----------------------------------------------------------------------------
(* Calls of promptLLM that overlap on one gateway: the background's        *)
(* message listener awaits processFormCompletion for each request it       *)
(* receives (part_007:35-45), so the requests of two tabs are in promptLLM *)
(* together.  In this specification llmInterrogator is the gateway's       *)
(* abortController (the number of the call that created it, 0 for the      *)
(* constructor's) with the set of the controllers aborted, and fnArgs      *)
(* gives each call its position, the controller whose signal its pending   *)
(* fetch holds, the status of its latest response, what it ended with, and *)
(* hit: abortRequest was called while it was in flight.                    *)

\* calls of promptLLM in one run
MaxCalls == 2

CallIds == 1..MaxCalls

IdleCall == [pc |-> "idle", signal |-> 0, status |-> "none", result |-> "none",
             hit |-> FALSE]

InFlight(call) == call.pc \notin {"idle", "done"}

InitOverlap ==
    /\ isRequestPending = FALSE
    /\ formsData = <<>>
    /\ prefs = [k \in PrefKeys |-> "absent"]
    /\ forms = InitialForms
    /\ tasks = EmptyBag
    /\ toBg = <<>>
    /\ bgTasks = <<>>
    /\ toContent = <<>>
    /\ llmInterrogator = [abortController |-> 0, aborted |-> {}]
    /\ cardManager = NoCard
    /\ llmSent = {}
    /\ events = <<>>
    /\ location = "u1"
    /\ used = [focus |-> 0, fill |-> 0, last |-> "", stored |-> ""]
    /\ fnArgs = [c \in CallIds |-> IdleCall]
    /\ fnResult = <<>>

ovRest == <<isRequestPending, formsData, prefs, forms, tasks, toBg, bgTasks,
            toContent, cardManager, llmSent, events, location, used, fnResult>>

\* is the signal of controller id aborted
SignalAborted(id) == id \in llmInterrogator.aborted

\* part_012:30-45: promptLLM replaces this.abortController by a fresh one and
\* sends the first request with its signal
OvCall(c) ==
    /\ fnArgs[c].pc = "idle"
    /\ \A d \in CallIds : d < c => fnArgs[d].pc # "idle"
    /\ llmInterrogator' = [llmInterrogator EXCEPT !.abortController = c]
    /\ fnArgs' = [fnArgs EXCEPT ![c].pc = "fetch1", ![c].signal = c]
    /\ UNCHANGED ovRest

\* part_012:45-53: a fetch of call c settled and was not aborted
OvRespond(c, r) ==
    /\ fnArgs[c].pc \in {"fetch1", "fetch2"}
    /\ ~SignalAborted(fnArgs[c].signal)
    /\ fnArgs' = [fnArgs EXCEPT ![c] =
            IF r = "reject" THEN [@ EXCEPT !.pc = "done", !.status = r, !.result = "error"]
            ELSE IF ShouldRetry(r) /\ @.pc = "fetch1"
                 THEN [@ EXCEPT !.pc = "wait", !.status = r]
                 ELSE [@ EXCEPT !.pc = "body", !.status = r]]
    /\ UNCHANGED <<llmInterrogator, ovRest>>

\* part_012:51-52: the timer of call c fired; sendRequest takes the signal
\* of this.abortController as it is now (part_012:151)
OvRetry(c) ==
    /\ fnArgs[c].pc = "wait"
    /\ fnArgs' = [fnArgs EXCEPT ![c].pc = "fetch2",
                                ![c].signal = llmInterrogator.abortController]
    /\ UNCHANGED <<llmInterrogator, ovRest>>

\* part_012:64-75: response.json() of call c resolved
OvBody(c) ==
    /\ fnArgs[c].pc = "body"
    /\ ~SignalAborted(fnArgs[c].signal)
    /\ fnArgs' = [fnArgs EXCEPT ![c].pc = "done",
                                ![c].result = IF Ok(fnArgs[c].status) THEN "content"
                                              ELSE "error"]
    /\ UNCHANGED <<llmInterrogator, ovRest>>

\* part_012:54-58 and 64-68: the fetch, or the read of the body, of call c
\* rejected because its signal is aborted
OvAborted(c) ==
    /\ fnArgs[c].pc \in {"fetch1", "fetch2", "body"}
    /\ SignalAborted(fnArgs[c].signal)
    /\ fnArgs' = [fnArgs EXCEPT ![c].pc = "done", ![c].result = "abort"]
    /\ UNCHANGED <<llmInterrogator, ovRest>>

\* abortRequest, part_012:159-161, called while a call is in flight: it
\* aborts this.abortController
OvAbort ==
    /\ \E c \in CallIds : InFlight(fnArgs[c])
    /\ ~SignalAborted(llmInterrogator.abortController)
    /\ llmInterrogator' = [llmInterrogator EXCEPT !.aborted =
                                @ \cup {llmInterrogator.abortController}]
    /\ fnArgs' = [c \in CallIds |->
                    IF InFlight(fnArgs[c]) THEN [fnArgs[c] EXCEPT !.hit = TRUE]
                    ELSE fnArgs[c]]
    /\ UNCHANGED ovRest

NextOverlap ==
    \/ \E c \in CallIds : OvCall(c)
    \/ \E c \in CallIds : \E r \in FetchOutcomes : OvRespond(c, r)
    \/ \E c \in CallIds : OvRetry(c)
    \/ \E c \in CallIds : OvBody(c)
    \/ \E c \in CallIds : OvAborted(c)
    \/ OvAbort

SpecOverlap == InitOverlap /\ [][NextOverlap]_vars

\* C29: a call of promptLLM that was in flight when abortRequest was called
\* (at a fetch, in its retry-after wait, or at the read of a body) ends with
\* the abort error, never with content or with another error.
C29_AbortRaises ==
    \A c \in CallIds :
        (fnArgs[c].pc = "done" /\ fnArgs[c].hit) => fnArgs[c].result = "abort"

----------------------------------------------------------------------------
(* The ids of the page's forms.  In this specification forms is the        *)
(* sequence of the form elements in document order, each with its id       *)
(* attribute, the id of its closest ancestor that has one, and el, the     *)
(* identity of the element; llmSent holds the snapshots taken, as pairs of *)
(* element and id; used.focus counts the focus events.                     *)

\* focus events in one run
MaxIdFocus == 2
\* form elements the page holds
MaxPageForms == 3

\* an id: the attribute written in the page (own), generated from the
\* ancestor's id and the index, or generated from time and random
NoId == [kind |-> "none", parent |-> "", index |-> 0, token |-> ""]
OwnId(name) == [kind |-> "own", parent |-> "", index |-> 0, token |-> name]

\* the outcomes of Date.now() and Math.random() of one generateFormId call
Tokens == {"r1", "r2"}

\* generateFormId, content.js:24-29; parent is "" when no ancestor has an id
generateFormId(form, index, token) ==
    IF form.parent # ""
    THEN [kind |-> "generated", parent |-> form.parent, index |-> index, token |-> ""]
    ELSE [kind |-> "generated", parent |-> "", index |-> 0, token |-> token]

\* document.querySelectorAll('form:not([id])'), content.js:36: positions of
\* the forms without an id attribute
WithoutIdMut(doc) == 1..Len(doc)
WithoutId(doc) == {i \in 1..Len(doc) : doc[i].id = NoId}

\* the index forEach passes for position i of the selection
IndexIn(S, i) == Cardinality({j \in S : j < i})

\* addIdToForms, content.js:34-40; tokens gives each position its time and random
addIdToForms(doc, tokens) ==
    LET S == WithoutId(doc)
    IN  [i \in 1..Len(doc) |->
            IF i \in S
            THEN [doc[i] EXCEPT !.id = generateFormId(doc[i], IndexIn(S, i), tokens[i])]
            ELSE doc[i]]

PageForm(el, id, parent) == [el |-> el, id |-> id, parent |-> parent]

InitIds ==
    /\ isRequestPending = FALSE
    /\ formsData = <<>>
    /\ prefs = [k \in PrefKeys |-> "absent"]
    /\ forms \in {<<PageForm(1, a, p), PageForm(2, b, q)>> :
                    a \in {NoId, OwnId("a")}, b \in {NoId, OwnId("b")},
                    p \in {"", "p"}, q \in {"", "p"}}
    /\ tasks = EmptyBag
    /\ toBg = <<>>
    /\ bgTasks = <<>>
    /\ toContent = <<>>
    /\ llmInterrogator = "undefined"
    /\ cardManager = NoCard
    /\ llmSent = {}
    /\ events = <<>>
    /\ location = "u1"
    /\ used = [focus |-> 0, fill |-> 0, last |-> "", stored |-> ""]
    /\ fnArgs = <<>>
    /\ fnResult = <<>>

idRest == <<isRequestPending, formsData, prefs, tasks, toBg, bgTasks, toContent,
            llmInterrogator, cardManager, events, location, fnArgs, fnResult>>

\* focusin on a field of the form at position i, content.js:304-320:
\* addIdToForms, then the snapshot of the form with its id
IdFocusIn(i, tokens) ==
    /\ used.focus < MaxIdFocus
    /\ i \in 1..Len(forms)
    /\ used' = [used EXCEPT !.focus = @ + 1]
    /\ forms' = addIdToForms(forms, tokens)
    /\ llmSent' = llmSent \cup {[el |-> forms'[i].el, id |-> forms'[i].id]}
    /\ UNCHANGED idRest

\* the page inserts a form without an id before the others
InsertForm(parent) ==
    /\ Len(forms) < MaxPageForms
    /\ forms' = <<PageForm(Len(forms) + 1, NoId, parent)>> \o forms
    /\ UNCHANGED <<llmSent, used, idRest>>

NextIds ==
    \/ \E i \in 1..MaxPageForms : \E tokens \in [1..Len(forms) -> Tokens] :
            IdFocusIn(i, tokens)
    \/ \E parent \in {"", "p"} : InsertForm(parent)

SpecIds == InitIds /\ [][NextIds]_vars

\* the form element el of the document
ElementOf(doc, el) == doc[CHOOSE i \in 1..Len(doc) : doc[i].el = el]

\* C30: a form element that has an id keeps it through every later focus
\* event and addIdToForms call, and all the snapshots of one form element
\* carry the same id.
C30_IdIsStable ==
    /\ [][\A i \in 1..Len(forms) :
            forms[i].id # NoId => ElementOf(forms', forms[i].el).id = forms[i].id]_vars
    /\ [](\A a, b \in llmSent : a.el = b.el => a.id = b.id)
    /\ [](\A a \in llmSent : a.id # NoId /\ ElementOf(forms, a.el).id = a.id)

\* two focus events, on a form that had no id and on the form inserted
\* later: the first form still has the id it was given first
C30_Witness ==
    /\ used.focus = 2
    /\ Len(forms) = 3
    /\ Cardinality(llmSent) = 2
    /\ \E a \in llmSent : a.el = 1 /\ a.id.kind = "generated"
    /\ \E a \in llmSent : a.el = 3 /\ a.id.kind = "generated"

\* C36: no two forms of the document carry the same id assigned by
\* addIdToForms.  Two ids made of time and random are taken to differ; the
\* property is stated for every pair with an id derived from an ancestor.
C36_AssignedIdsDistinct ==
    \A i, j \in 1..Len(forms) :
        (/\ i # j
         /\ forms[i].id.kind = "generated"
         /\ forms[j].id.kind = "generated"
         /\ forms[i].id.parent # "")
        => forms[i].id # forms[j].id

====
